---- MODULE Spec2Model ----
(***************************************************************************)
(* rmon: the metrics engine (src/src/metrics.rs, SystemMetrics) driven by  *)
(* the application loop (src/src/main.rs, App::update).                    *)
(*                                                                         *)
(* Conventions of the model                                                *)
(*  - an f32 is an exact rational <<n, d>> with d > 0 in lowest terms;     *)
(*    rounding is not modelled, sign and zero tests are exact;             *)
(*  - an Option<T> is a sequence: <<>> is None, <<x>> is Some(x);           *)
(*  - a Rust string whose characters the code inspects (command output,    *)
(*    interface names, sensor files) is a sequence of one-character        *)
(*    strings;                                                             *)
(*  - an Instant is opaque in the code, only differences are observed:     *)
(*    the model keeps time_diff, the difference update_network_stats       *)
(*    computes, in whole time units.                                       *)
(***************************************************************************)
EXTENDS Integers, Sequences, FiniteSets, TLC

\* ------------------------------------------------------------------ bounds
\* max_history is drawn from 0 .. MaxHistory
MaxHistory == 2
\* number of calls of update() in a run
MaxTicks == 3
\* an interface byte counter is drawn from 0 .. MaxBytes
MaxBytes == 3
\* time units between two calls of update_network_stats: 0 .. MaxElapsed
MaxElapsed == 2
\* a GPU process query prints at most MaxAppLines process lines
MaxAppLines == 2
\* processes of the host whose table fits a few pages
MaxWorkers == 12
\* qualifying processes of the crowded host
MaxProcesses == 501
\* a short journal holds at most MaxLogLines entries
MaxLogLines == 2
MaxCores == 4

\* ------------------------------------------------------------- arithmetic
Abs(x) == IF x < 0 THEN -x ELSE x

RECURSIVE GCD(_, _)
GCD(a, b) == IF b = 0 THEN a ELSE GCD(b, a % b)

\* the rational n/d (d # 0) in lowest terms with a positive denominator
Rat(n, d) ==
    LET g == GCD(Abs(n), Abs(d))
        s == IF d < 0 THEN -1 ELSE 1
    IN  <<(s * n) \div g, (s * d) \div g>>

\* `x as f32` of an integer
F32(x) == <<x, 1>>
FZero == F32(0)
FMul(a, b) == Rat(a[1] * b[1], a[2] * b[2])
FDiv(a, b) == Rat(a[1] * b[2], a[2] * b[1])
FAdd(a, b) == Rat(a[1] * b[2] + b[1] * a[2], a[2] * b[2])
FSub(a, b) == Rat(a[1] * b[2] - b[1] * a[2], a[2] * b[2])
FGt(a, b) == a[1] * b[2] > b[1] * a[2]
FGe(a, b) == a[1] * b[2] >= b[1] * a[2]

\* a mutant of saturating_sub: the plain difference
plain_sub(a, b) == a - b

\* u64::saturating_sub
saturating_sub(a, b) == IF a >= b THEN a - b ELSE 0

\* ----------------------------------------------------------------- Option
None == <<>>
Some(x) == <<x>>
unwrap_or(o, d) == IF o = None THEN d ELSE o[1]

\* VecDeque::back().copied()
back(h) == IF h = <<>> THEN None ELSE Some(h[Len(h)])

\* ---------------------------------------------------------------- strings
Digit == {"0", "1", "2", "3", "4", "5", "6", "7", "8", "9"}

DigitVal(c) ==
    CASE c = "0" -> 0 [] c = "1" -> 1 [] c = "2" -> 2 [] c = "3" -> 3
      [] c = "4" -> 4 [] c = "5" -> 5 [] c = "6" -> 6 [] c = "7" -> 7
      [] c = "8" -> 8 [] c = "9" -> 9

\* str::starts_with
starts_with(s, p) == Len(s) >= Len(p) /\ SubSeq(s, 1, Len(p)) = p

\* char::is_whitespace on the characters the inputs use
IsSpace(c) == c \in {" ", "\n", "\t"}

\* str::trim
RECURSIVE trim_start(_)
trim_start(s) ==
    IF s # <<>> /\ IsSpace(Head(s)) THEN trim_start(Tail(s)) ELSE s

RECURSIVE trim_end(_)
trim_end(s) ==
    IF s # <<>> /\ IsSpace(s[Len(s)])
    THEN trim_end(SubSeq(s, 1, Len(s) - 1))
    ELSE s

trim(s) == trim_end(trim_start(s))

\* str::split(c): the pieces between the separators, empty pieces kept
RECURSIVE split(_, _)
split(s, c) ==
    IF \E i \in 1..Len(s) : s[i] = c
    THEN LET i == CHOOSE k \in 1..Len(s) :
                      s[k] = c /\ \A j \in 1..(k - 1) : s[j] # c
         IN  <<SubSeq(s, 1, i - 1)>> \o split(SubSeq(s, i + 1, Len(s)), c)
    ELSE <<s>>

\* str::lines().next(): None for an empty string, else the text before the
\* first line feed
first_line(s) ==
    IF s = <<>> THEN None
    ELSE IF \E i \in 1..Len(s) : s[i] = "\n"
         THEN Some(split(s, "\n")[1])
         ELSE Some(s)

RECURSIVE DigitsVal(_)
DigitsVal(s) ==
    IF s = <<>> THEN 0
    ELSE 10 * DigitsVal(SubSeq(s, 1, Len(s) - 1)) + DigitVal(s[Len(s)])

RECURSIVE Pow10(_)
Pow10(k) == IF k = 0 THEN 1 ELSE 10 * Pow10(k - 1)

IsDigits(s) == \A i \in 1..Len(s) : s[i] \in Digit

\* str::parse::<f32>().ok() on the decimal notations the inputs use: digits
\* with an optional point and at least one digit ("40", "35.5", "5.", ".5");
\* every other text of the inputs fails to parse
parse_f32(s) ==
    LET pieces == split(s, ".")
    IN  IF Len(pieces) = 1
        THEN IF s # <<>> /\ IsDigits(s) THEN Some(F32(DigitsVal(s))) ELSE None
        ELSE IF Len(pieces) = 2
                /\ IsDigits(pieces[1]) /\ IsDigits(pieces[2])
                /\ Len(pieces[1]) + Len(pieces[2]) > 0
             THEN Some(Rat(DigitsVal(pieces[1]) * Pow10(Len(pieces[2]))
                              + DigitsVal(pieces[2]),
                           Pow10(Len(pieces[2]))))
             ELSE None

\* str::parse::<i32>().ok() on the notations the inputs use: at most nine
\* digits with an optional minus sign
parse_i32(s) ==
    IF s # <<>> /\ Head(s) = "-"
    THEN IF Tail(s) # <<>> /\ IsDigits(Tail(s))
         THEN Some(0 - DigitsVal(Tail(s)))
         ELSE None
    ELSE IF s # <<>> /\ IsDigits(s) THEN Some(DigitsVal(s)) ELSE None

\* str::parse::<usize>().ok() on the notations the inputs use: at most nine
\* digits
parse_usize(s) ==
    IF s # <<>> /\ IsDigits(s) THEN Some(DigitsVal(s)) ELSE None

UpperCase ==
    <<"A", "B", "C", "D", "E", "F", "G", "H", "I", "J", "K", "L", "M",
      "N", "O", "P", "Q", "R", "S", "T", "U", "V", "W", "X", "Y", "Z">>
LowerCase ==
    <<"a", "b", "c", "d", "e", "f", "g", "h", "i", "j", "k", "l", "m",
      "n", "o", "p", "q", "r", "s", "t", "u", "v", "w", "x", "y", "z">>

\* str::to_lowercase on ASCII
to_lowercase(s) ==
    IF s = <<>> THEN <<>>
    ELSE [i \in 1..Len(s) |->
             IF \E k \in 1..26 : UpperCase[k] = s[i]
             THEN LowerCase[CHOOSE k \in 1..26 : UpperCase[k] = s[i]]
             ELSE s[i]]

\* str::contains(pattern)
contains(s, p) ==
    \E i \in 0..(Len(s) - Len(p)) : SubSeq(s, i + 1, i + Len(p)) = p

\* str::split_whitespace: the maximal runs of characters that are no
\* whitespace
RECURSIVE split_whitespace(_)
split_whitespace(s) ==
    LET t == trim_start(s)
    IN  IF t = <<>> THEN <<>>
        ELSE IF \E i \in 1..Len(t) : IsSpace(t[i])
             THEN LET i == CHOOSE k \in 1..Len(t) :
                               IsSpace(t[k])
                               /\ \A j \in 1..(k - 1) : ~IsSpace(t[j])
                  IN  <<SubSeq(t, 1, i - 1)>>
                      \o split_whitespace(SubSeq(t, i + 1, Len(t)))
             ELSE <<t>>

\* str::lines(): the text between line feeds; a final line feed opens no
\* further line
lines(s) ==
    IF s = <<>> THEN <<>>
    ELSE IF s[Len(s)] = "\n"
         THEN split(SubSeq(s, 1, Len(s) - 1), "\n")
         ELSE split(s, "\n")

\* str::parse::<u32>().ok() on the notations the inputs use: at most nine
\* digits
parse_u32(s) ==
    IF s # <<>> /\ IsDigits(s) THEN Some(DigitsVal(s)) ELSE None

IsNotPercent(c) == c # "%"

\* str::replace("%", "")
replace_percent(s) == SelectSeq(s, IsNotPercent)

\* [&str]::join(" ")
RECURSIVE join(_)
join(parts) ==
    IF parts = <<>> THEN <<>>
    ELSE IF Len(parts) = 1 THEN parts[1]
         ELSE parts[1] \o <<" ">> \o join(Tail(parts))

\* ------------------------------------------------------------------ state
VARIABLES
    \* SystemMetrics (metrics.rs:5-38)
    max_history,
    cpu_history, memory_history, disk_history,
    network_rx_history, network_tx_history,
    prev_rx_bytes, prev_tx_bytes, initial_rx_bytes, initial_tx_bytes,
    networks,
    per_core_usage, per_core_temperatures,
    gpu_usage, gpu_temperature, gpu_fan_speed, gpu_power_draw,
    gpu_memory_used, gpu_memory_total, gpu_name,
    gpu_usage_history, gpu_memory_percent_history,
    \* App.system (main.rs:38), the host snapshot update() reads
    system,
    \* the host as the last call of update() observed it
    hwmon,        \* the directories of /sys/class/hwmon (metrics.rs:449-456)
    thermal,      \* /sys/class/thermal/thermal_zone0.. (metrics.rs:509-512)
    disks,        \* Disks::new_with_refreshed_list() (metrics.rs:109)
    time_diff,    \* now - last_network_update (metrics.rs:249-251)
    nvidia_smi,   \* the outputs of the two nvidia-smi queries (metrics.rs:546-609)
    \* every value system.global_cpu_usage() returned to update(), in call order
    cpu_samples,
    \* ui::draw_gpu_processes (ui.rs:882-948)
    gpu_processes,     \* the list get_gpu_processes() returned last (ui.rs:884)
    nvidia_smi_apps,   \* what its three queries print on this host (ui.rs:965-1056)
    \* App (main.rs:38-55)
    should_quit, current_tab,
    processes, process_scroll, process_sort_mode,
    journal_logs, journal_scroll,
    update_interval,
    \* an Instant of App is kept as its elapsed(): the whole seconds since it
    \* was taken, counted up to the interval it is compared with
    last_update, last_process_refresh, last_journal_refresh,
    \* App.system.processes() (main.rs:259), the process map as last refreshed
    system_processes,
    \* how the kill command ended that the step just taken ran (main.rs:306-311),
    \* "none" when it ran none
    kill_result,
    \* how the journalctl command ended that the step just taken ran
    \* (main.rs:228-237), NotRun when it ran none
    journal_fetch

metrics_vars ==
    <<max_history, cpu_history, memory_history, disk_history,
      network_rx_history, network_tx_history,
      prev_rx_bytes, prev_tx_bytes, initial_rx_bytes, initial_tx_bytes,
      networks, per_core_usage, per_core_temperatures,
      gpu_usage, gpu_temperature, gpu_fan_speed, gpu_power_draw,
      gpu_memory_used, gpu_memory_total, gpu_name,
      gpu_usage_history, gpu_memory_percent_history,
      system, hwmon, thermal, disks, time_diff, nvidia_smi, cpu_samples>>

ui_vars == <<gpu_processes, nvidia_smi_apps>>

process_vars ==
    <<processes, process_scroll, process_sort_mode, last_process_refresh,
      system_processes>>

journal_vars == <<journal_logs, journal_scroll, last_journal_refresh>>

app_vars ==
    <<should_quit, current_tab, update_interval, last_update, kill_result,
      journal_fetch,
      process_vars, journal_vars>>

vars == <<metrics_vars, ui_vars, app_vars>>

\* ---------------------------------------------------------------- network
\* the four interface-name tests of metrics.rs:50 and metrics.rs:240
IsMonitored(interface_name) ==
    /\ interface_name # <<"l", "o">>
    /\ ~starts_with(interface_name, <<"v", "i", "r", "b", "r">>)
    /\ ~starts_with(interface_name, <<"d", "o", "c", "k", "e", "r">>)
    /\ ~starts_with(interface_name, <<"v", "e", "t", "h">>)

\* the loop of metrics.rs:239-246: the sums of total_received() and of
\* total_transmitted() over the monitored interfaces
RECURSIVE total_bytes(_)
total_bytes(nets) ==
    IF nets # <<>>
    THEN LET n == Head(nets)
             rest == total_bytes(Tail(nets))
         IN  IF IsMonitored(n.name)
             THEN [rx |-> rest.rx + n.rx, tx |-> rest.tx + n.tx]
             ELSE rest
    ELSE [rx |-> 0, tx |-> 0]

\* a mutant of NetRate: no test of the previous total
net_rate_unguarded(total, prev, elapsed) ==
    IF FGt(elapsed, FZero)
    THEN FDiv(FMul(FDiv(F32(saturating_sub(total, prev)), elapsed), F32(8)),
              F32(1000))
    ELSE FZero

\* metrics.rs:254-266: one direction's rate in Kbps
NetRate(total, prev, elapsed) ==
    IF prev > 0 /\ FGt(elapsed, FZero)
    THEN FDiv(FMul(FDiv(F32(saturating_sub(total, prev)), elapsed), F32(8)),
              F32(1000))
    ELSE FZero

\* ---------------------------------------------------------- history store
pop_front(h) == IF h = <<>> THEN h ELSE Tail(h)

\* a mutant of Push: the eviction test is > instead of >=
push_evicting_late(h, v) ==
    Append(IF Len(h) > max_history THEN pop_front(h) ELSE h, v)

\* the three-line push of every series (metrics.rs:86-89 and alike)
Push(h, v) ==
    Append(IF Len(h) >= max_history THEN pop_front(h) ELSE h, v)

\* -------------------------------------------------------------------- disk
\* metrics.rs:108-117: the usage of the first disk mounted on "/", else 0.0
RECURSIVE root_disk_usage(_)
root_disk_usage(dsk) ==
    IF dsk = <<>> THEN FZero
    ELSE IF Head(dsk).mount_point = "/"
         THEN LET total == F32(Head(dsk).total_space)
                  available == F32(Head(dsk).available_space)
              IN  FMul(FDiv(FSub(total, available), total), F32(100))
         ELSE root_disk_usage(Tail(dsk))

\* metrics.rs:101
memory_usage_of(sys) ==
    FMul(FDiv(F32(sys.used_memory), F32(sys.total_memory)), F32(100))

\* --------------------------------------------------------------------- GPU
NotSupported ==
    <<"[", "N", "o", "t", " ", "S", "u", "p", "p", "o", "r", "t", "e", "d", "]">>

\* A finished Command::output(): status is "ok" (spawned, exit status 0,
\* stdout valid UTF-8), "spawn_error", "exit_failure" or "invalid_utf8";
\* "not_run" stands for a query update_gpu_stats did not issue.
CmdOut(status, stdout) == [status |-> status, stdout |-> stdout]
NotRun == CmdOut("not_run", <<>>)

\* metrics.rs:553-557 and 611-615: the trimmed comma-separated fields of the
\* first output line, None when there is no such line
query_parts(out) ==
    IF out.status # "ok" THEN None
    ELSE LET line == first_line(out.stdout)
         IN  IF line = None THEN None
             ELSE LET raw == split(line[1], ",")
                  IN  Some([i \in 1..Len(raw) |-> trim(raw[i])])

\* metrics.rs:560-564
name_field(tok) ==
    IF tok # <<>> /\ tok # NotSupported THEN Some(tok) ELSE None

\* metrics.rs:570-574, 577-581, 584-588, 590-594
supported_f32(tok) ==
    IF tok # NotSupported THEN parse_f32(tok) ELSE None

\* a mutant of full_fields: one unsupported field discards the whole line
full_fields_all_or_nothing(parts) ==
    IF \E i \in 2..7 : parse_f32(parts[i]) = None
    THEN [name |-> None, usage |-> None, temperature |-> None,
          fan_speed |-> None, power_draw |-> None,
          memory_used |-> None, memory_total |-> None]
    ELSE [name |-> name_field(parts[1]),
          usage |-> parse_f32(parts[2]),
          temperature |-> parse_f32(parts[3]),
          fan_speed |-> supported_f32(parts[4]),
          power_draw |-> supported_f32(parts[5]),
          memory_used |-> supported_f32(parts[6]),
          memory_total |-> supported_f32(parts[7])]

\* metrics.rs:559-594: the seven fields taken from an accepted line
full_fields(parts) ==
    [name |-> name_field(parts[1]),
     usage |-> parse_f32(parts[2]),
     temperature |-> parse_f32(parts[3]),
     fan_speed |-> supported_f32(parts[4]),
     power_draw |-> supported_f32(parts[5]),
     memory_used |-> supported_f32(parts[6]),
     memory_total |-> supported_f32(parts[7])]

\* a mutant of basic_fields: the VRAM figures of the previous tick are kept
basic_fields_keep_memory(parts) ==
    [name |-> None,
     usage |-> parse_f32(parts[1]),
     temperature |-> parse_f32(parts[2]),
     fan_speed |-> None, power_draw |-> None,
     memory_used |-> gpu_memory_used, memory_total |-> gpu_memory_total]

\* metrics.rs:617-625: the reduced query's two fields, the others cleared
basic_fields(parts) ==
    [name |-> None,
     usage |-> parse_f32(parts[1]),
     temperature |-> parse_f32(parts[2]),
     fan_speed |-> None, power_draw |-> None,
     memory_used |-> None, memory_total |-> None]

\* a mutant of cleared_fields: the name of the previous tick is kept
cleared_fields_keep_name ==
    [name |-> gpu_name, usage |-> None, temperature |-> None,
     fan_speed |-> None, power_draw |-> None,
     memory_used |-> None, memory_total |-> None]

\* metrics.rs:633-640
cleared_fields ==
    [name |-> None, usage |-> None, temperature |-> None,
     fan_speed |-> None, power_draw |-> None,
     memory_used |-> None, memory_total |-> None]

\* metrics.rs:558: the comprehensive line is taken
full_accepted(out) ==
    LET parts == query_parts(out)
    IN  parts # None /\ Len(parts[1]) >= 7

\* metrics.rs:616: the reduced line is taken
basic_accepted(out) ==
    LET parts == query_parts(out)
    IN  parts # None /\ Len(parts[1]) >= 2

\* metrics.rs:542-641: the seven GPU fields after the call, given the output
\* of the comprehensive query and the output the reduced query gives if run
update_gpu_stats(full, basic) ==
    IF full_accepted(full) THEN full_fields(query_parts(full)[1])
    ELSE IF basic_accepted(basic) THEN basic_fields(query_parts(basic)[1])
    ELSE cleared_fields

\* metrics.rs:207-217, on the fields given
memory_usage_percent_of(used, total) ==
    IF used # None /\ total # None
    THEN IF FGt(total[1], FZero)
         THEN Some(FMul(FDiv(used[1], total[1]), F32(100)))
         ELSE None
    ELSE None

\* a mutant of history_sample: an absent value pushes nothing
push_if_present(h, o) == IF o = None THEN h ELSE Push(h, o[1])

\* metrics.rs:645-649 and 652-656: unwrap_or(0.0), then the push
history_sample(h, o) == Push(h, unwrap_or(o, FZero))

\* --------------------------------------------------------------- accessors
\* a mutant of latest: the oldest sample instead of the newest
oldest(h) == IF h = <<>> THEN FZero ELSE h[1]

\* metrics.rs:135 and alike: back().copied().unwrap_or(0.0)
latest(h) == unwrap_or(back(h), FZero)

cpu_usage == latest(cpu_history)
memory_usage == latest(memory_history)
disk_usage == latest(disk_history)
network_download_rate == latest(network_rx_history)
network_upload_rate == latest(network_tx_history)
gpu_memory_usage_percent ==
    memory_usage_percent_of(gpu_memory_used, gpu_memory_total)

\* a mutant of total_network_bytes: plain subtraction
total_network_bytes_plain_sub ==
    <<prev_rx_bytes - initial_rx_bytes, prev_tx_bytes - initial_tx_bytes>>

\* metrics.rs:284-289
total_network_bytes ==
    <<saturating_sub(prev_rx_bytes, initial_rx_bytes),
      saturating_sub(prev_tx_bytes, initial_tx_bytes)>>

\* ---------------------------------------------------------------- sensors
\* A file of sysfs is the Option of its text: None when fs::read_to_string
\* fails.
\* the files temp<i>_input and temp<i>_label of a hwmon directory
SensorFiles(input, label) == [input |-> input, label |-> label]

\* a directory of /sys/class/hwmon: its name file and its sensors, temp1 first
HwmonNode(name, sensors) == [name |-> name, sensors |-> sensors]

\* a directory /sys/class/thermal/thermal_zone<i>: its files temp and type
ThermalZone(temp, type) == [temp |-> temp, type |-> type]

StrCore == <<"c", "o", "r", "e">>
StrCpu == <<"c", "p", "u">>
StrCoretemp == <<"c", "o", "r", "e", "t", "e", "m", "p">>
StrK10temp == <<"k", "1", "0", "t", "e", "m", "p">>
StrX86PkgTemp ==
    <<"x", "8", "6", "_", "p", "k", "g", "_", "t", "e", "m", "p">>

\* metrics.rs:468-470 and 514-516: a temperature file read as degrees Celsius,
\* None when the file is missing or holds no i32
celsius_of(file) ==
    IF file = None THEN None
    ELSE LET temp_milli == parse_i32(trim(file[1]))
         IN  IF temp_milli = None THEN None
             ELSE Some(Rat(temp_milli[1], 1000))

\* a mutant of plausible: the bounds are accepted
plausible_inclusive(temp_celsius) ==
    FGe(temp_celsius, F32(10)) /\ FGe(F32(150), temp_celsius)

\* temp_celsius > 10.0 && temp_celsius < 150.0
plausible(temp_celsius) ==
    FGt(temp_celsius, F32(10)) /\ FGt(F32(150), temp_celsius)

\* metrics.rs:473-478: the core number a label file names, None when the file
\* is missing, the label lacks "core" or its second word is no number
core_num_of(label_file) ==
    IF label_file = None THEN None
    ELSE LET label == to_lowercase(trim(label_file[1]))
             words == split_whitespace(label)
         IN  IF contains(label, StrCore) /\ Len(words) >= 2
             THEN parse_usize(words[2])
             ELSE None

\* metrics.rs:464-486: the (core_num, temp_celsius) pairs of the sensors
\* temp<i> .. temp64 of a directory, in index order
RECURSIVE core_readings(_, _)
core_readings(node, i) ==
    IF i > 64 THEN <<>>
    ELSE LET files == IF i <= Len(node.sensors) THEN node.sensors[i]
                      ELSE SensorFiles(None, None)
             t == celsius_of(files.input)
             k == IF t # None /\ plausible(t[1])
                  THEN core_num_of(files.label)
                  ELSE None
         IN  (IF k = None THEN <<>> ELSE <<<<k[1], t[1]>>>>)
             \o core_readings(node, i + 1)

\* a mutant of sort_by_key: the readings stay in index order
index_order(s) == s

\* slice::sort_by_key on the core number, a stable sort
RECURSIVE sort_by_key(_)
sort_by_key(s) ==
    IF s = <<>> THEN <<>>
    ELSE LET sorted == sort_by_key(SubSeq(s, 1, Len(s) - 1))
             p == s[Len(s)]
             n == Cardinality({j \in 1..Len(sorted) : sorted[j][1] <= p[1]})
         IN  SubSeq(sorted, 1, n) \o <<p>> \o SubSeq(sorted, n + 1, Len(sorted))

\* metrics.rs:456-458
is_core_sensor_node(node) ==
    /\ node.name # None
    /\ LET name == to_lowercase(trim(node.name[1]))
       IN  contains(name, StrCoretemp) \/ contains(name, StrK10temp)

\* metrics.rs:446-501: entries are the directories in read_dir order (none
\* when read_dir fails)
RECURSIVE read_hwmon_core_temperatures(_)
read_hwmon_core_temperatures(entries) ==
    IF entries = <<>> THEN None
    ELSE LET temp_map == IF is_core_sensor_node(Head(entries))
                         THEN sort_by_key(core_readings(Head(entries), 1))
                         ELSE <<>>
         IN  IF temp_map # <<>>
             THEN Some([j \in 1..Len(temp_map) |-> temp_map[j][2]])
             ELSE read_hwmon_core_temperatures(Tail(entries))

\* metrics.rs:519-526
is_cpu_related(zone, temp_celsius) ==
    IF zone.type # None
    THEN LET zone_type == to_lowercase(trim(zone.type[1]))
         IN  \/ contains(zone_type, StrCpu)
             \/ contains(zone_type, StrCore)
             \/ contains(zone_type, StrX86PkgTemp)
             \/ contains(zone_type, StrCoretemp)
    ELSE FGt(temp_celsius, F32(20)) /\ FGt(F32(100), temp_celsius)

\* metrics.rs:509-533: the accepted readings of thermal_zone<i> ..
\* thermal_zone15, in zone order
RECURSIVE zone_readings(_, _)
zone_readings(zones, i) ==
    IF i >= 16 THEN <<>>
    ELSE LET zone == IF i < Len(zones) THEN zones[i + 1]
                     ELSE ThermalZone(None, None)
             t == celsius_of(zone.temp)
         IN  (IF t # None /\ is_cpu_related(zone, t[1]) /\ plausible(t[1])
              THEN <<t[1]>>
              ELSE <<>>)
             \o zone_readings(zones, i + 1)

\* metrics.rs:503-540
read_thermal_zone_core_temperatures(zones) ==
    LET core_temps == zone_readings(zones, 0)
    IN  IF core_temps # <<>> THEN Some(core_temps) ELSE None

\* a mutant of map_physical: the logical cores beyond the physical ones get
\* the last physical reading
map_physical_last(physical_temps, logical_cores) ==
    IF logical_cores = 0 \/ physical_temps = <<>> THEN <<>>
    ELSE [l \in 1..logical_cores |->
             IF l <= Len(physical_temps) THEN physical_temps[l]
             ELSE physical_temps[Len(physical_temps)]]

\* a mutant of map_physical: every physical reading is kept when there are
\* fewer logical cores
map_physical_all(physical_temps, logical_cores) ==
    IF logical_cores = 0 \/ physical_temps = <<>> THEN <<>>
    ELSE IF logical_cores > Len(physical_temps)
    THEN [l \in 1..logical_cores |->
             physical_temps[((l - 1) % Len(physical_temps)) + 1]]
    ELSE physical_temps

\* metrics.rs:393-424: the physical readings spread over the logical cores
\* (the test of line 410 holds for every index line 402-408 computes)
map_physical(physical_temps, logical_cores) ==
    LET physical_cores == Len(physical_temps)
    IN  IF logical_cores = 0 THEN <<>>
        ELSE IF physical_cores > 0 /\ logical_cores > physical_cores
        THEN [l \in 1..logical_cores |->
                 physical_temps[(IF l - 1 < physical_cores
                                 THEN l - 1
                                 ELSE (l - 1) % physical_cores) + 1]]
        ELSE IF physical_cores > 0
        THEN [l \in 1..logical_cores |->
                 IF l - 1 < physical_cores
                 THEN physical_temps[l]
                 ELSE physical_temps[physical_cores]]
        ELSE <<>>

RECURSIVE FSum(_)
FSum(s) == IF s = <<>> THEN FZero ELSE FAdd(Head(s), FSum(Tail(s)))

\* metrics.rs:428-441: the zone readings, padded with their mean up to the
\* logical core count
pad_with_mean(temps, logical_cores) ==
    IF Len(temps) < logical_cores /\ temps # <<>>
    THEN temps \o [i \in 1..(logical_cores - Len(temps)) |->
                      FDiv(FSum(temps), F32(Len(temps)))]
    ELSE temps

\* metrics.rs:388-444: the new per_core_temperatures; logical_cores is the
\* length of the per_core_usage update() has just rebuilt
update_per_core_temperatures(logical_cores, entries, zones) ==
    LET physical_temps == read_hwmon_core_temperatures(entries)
        temps == read_thermal_zone_core_temperatures(zones)
    IN  IF physical_temps # None
        THEN map_physical(physical_temps[1], logical_cores)
        ELSE IF temps # None
        THEN pad_with_mean(temps[1], logical_cores)
        ELSE <<>>

\* ---------------------------------------------------- package temperature
StrPackage == <<"p", "a", "c", "k", "a", "g", "e">>
StrPkg == <<"p", "k", "g">>

\* metrics.rs:340-342
is_cpu_sensor_node(node) ==
    /\ node.name # None
    /\ LET name == to_lowercase(trim(node.name[1]))
       IN  \/ contains(name, StrCoretemp)
           \/ contains(name, StrCpu)
           \/ contains(name, StrK10temp)

\* metrics.rs:354-356: the label file exists and names the package
package_labelled(label_file) ==
    /\ label_file # None
    /\ LET label == to_lowercase(trim(label_file[1]))
       IN  contains(label, StrPackage) \/ contains(label, StrPkg)

\* metrics.rs:344-369: what the sensors temp<temp_num> .. temp10 of a
\* directory push to package_candidates (package) or to fallback_candidates
RECURSIVE candidates(_, _, _)
candidates(node, temp_num, package) ==
    IF temp_num > 10 THEN <<>>
    ELSE LET files == IF temp_num <= Len(node.sensors)
                      THEN node.sensors[temp_num]
                      ELSE SensorFiles(None, None)
             t == celsius_of(files.input)
             pushed == /\ t # None
                       /\ plausible(t[1])
                       /\ IF package THEN package_labelled(files.label)
                          ELSE ~package_labelled(files.label) /\ temp_num = 1
         IN  (IF pushed THEN <<t[1]>> ELSE <<>>)
             \o candidates(node, temp_num + 1, package)

\* metrics.rs:335-373: the candidates of every matching directory, in read_dir
\* order
RECURSIVE hwmon_candidates(_, _)
hwmon_candidates(entries, package) ==
    IF entries = <<>> THEN <<>>
    ELSE (IF is_cpu_sensor_node(Head(entries))
          THEN candidates(Head(entries), 1, package)
          ELSE <<>>)
         \o hwmon_candidates(Tail(entries), package)

\* Iterator::max_by with partial_cmp (metrics.rs:376, 381): the last of the
\* greatest elements, None of an empty vector
RECURSIVE max_by(_)
max_by(s) ==
    IF s = <<>> THEN None
    ELSE LET m == max_by(SubSeq(s, 1, Len(s) - 1))
             x == s[Len(s)]
         IN  IF m = None \/ FGe(x, m[1]) THEN Some(x) ELSE m

\* a mutant of read_hwmon_temperature: the hottest candidate of either kind
read_hwmon_temperature_hottest(entries) ==
    max_by(hwmon_candidates(entries, TRUE) \o hwmon_candidates(entries, FALSE))

\* SystemMetrics::read_hwmon_temperature (metrics.rs:327-386)
read_hwmon_temperature(entries) ==
    LET package_candidates == hwmon_candidates(entries, TRUE)
        fallback_candidates == hwmon_candidates(entries, FALSE)
    IN  IF package_candidates # <<>> THEN max_by(package_candidates)
        ELSE max_by(fallback_candidates)

\* metrics.rs:304-321: the first plausible reading of thermal_zone<i> ..
\* thermal_zone2
RECURSIVE first_thermal_path(_, _)
first_thermal_path(zones, i) ==
    IF i >= 3 THEN None
    ELSE LET zone == IF i < Len(zones) THEN zones[i + 1]
                     ELSE ThermalZone(None, None)
             t == celsius_of(zone.temp)
         IN  IF t # None /\ plausible(t[1]) THEN t
             ELSE first_thermal_path(zones, i + 1)

\* SystemMetrics::read_thermal_zone (metrics.rs:300-325)
read_thermal_zone(entries, zones) ==
    LET t == first_thermal_path(zones, 0)
    IN  IF t # None THEN t ELSE read_hwmon_temperature(entries)

\* SystemMetrics::cpu_temperature (metrics.rs:291-298) over the files entries
\* and zones
cpu_temperature_of(entries, zones) ==
    LET temp == read_hwmon_temperature(entries)
    IN  IF temp # None THEN temp ELSE read_thermal_zone(entries, zones)

\* cpu_temperature() called between two ticks, the files being those the last
\* tick read
cpu_temperature == cpu_temperature_of(hwmon, thermal)

\* ---------------------------------------------------------- GPU list
\* struct GpuProcess (ui.rs:951-957)
GpuProcess(name, pid, memory_mb, gpu_util, mem_util) ==
    [name |-> name, pid |-> pid, memory_mb |-> memory_mb,
     gpu_util |-> gpu_util, mem_util |-> mem_util]

\* ui.rs:972-974: the text of a query that ran, succeeded and printed UTF-8
stdout_of(cmd) == IF cmd.status = "ok" THEN Some(cmd.stdout) ELSE None

\* processes.iter_mut().find(|p| p.pid == pid): the index of the first record
\* of the pid, 0 when there is none
find_pid(list, pid) ==
    IF \E i \in 1..Len(list) : list[i].pid = pid
    THEN CHOOSE i \in 1..Len(list) :
             list[i].pid = pid
             /\ \A j \in 1..(i - 1) : list[j].pid # pid
    ELSE 0

\* ui.rs:979-982 and 1065-1068: the record of a csv line "pid, name, memory",
\* None when the line has fewer than three fields or a number does not parse
csv_app(line) ==
    LET raw == split(line, ",")
        parts == [i \in 1..Len(raw) |-> trim(raw[i])]
    IN  IF Len(parts) >= 3 /\ parse_u32(parts[1]) # None
           /\ parse_u32(parts[3]) # None
        THEN Some(GpuProcess(parts[2], parse_u32(parts[1])[1],
                             parse_u32(parts[3])[1], None, None))
        ELSE None

\* ui.rs:975-992: every well-formed line of the compute query is pushed
RECURSIVE compute_lines(_, _)
compute_lines(list, ls) ==
    IF ls = <<>> THEN list
    ELSE IF trim(Head(ls)) = <<>> \/ csv_app(Head(ls)) = None
         THEN compute_lines(list, Tail(ls))
         ELSE compute_lines(Append(list, csv_app(Head(ls))[1]), Tail(ls))

\* ui.rs:1016-1025: a utilisation column, "-" when not applicable
utilization(field) ==
    IF field = <<"-">> THEN None ELSE parse_u32(replace_percent(field))

\* ui.rs:1007-1043: one line of the monitor
pmon_line(list, line) ==
    LET parts == split_whitespace(line)
    IN  IF starts_with(line, <<"#">>) \/ trim(line) = <<>>
           \/ contains(line, <<"g", "p", "u">>)
        THEN list
        ELSE IF Len(parts) >= 7 /\ parse_u32(parts[2]) # None
        THEN LET pid == parse_u32(parts[2])[1]
                 i == find_pid(list, pid)
             IN  IF i # 0
                 THEN [list EXCEPT ![i].gpu_util = utilization(parts[4]),
                                        ![i].mem_util = utilization(parts[5])]
                 ELSE Append(list,
                             GpuProcess(join(SubSeq(parts, 7, Len(parts))),
                                        pid, 0, utilization(parts[4]),
                                        utilization(parts[5])))
        ELSE list

RECURSIVE pmon_lines(_, _)
pmon_lines(list, ls) ==
    IF ls = <<>> THEN list
    ELSE pmon_lines(pmon_line(list, Head(ls)), Tail(ls))

\* a mutant of raised_memory: the later value wins
latest_memory(memory_mb, memory) == memory

\* ui.rs:1073-1075
raised_memory(memory_mb, memory) ==
    IF memory > memory_mb THEN memory ELSE memory_mb

\* ui.rs:1062-1086: one line of the graphics query
graphics_line(list, line) ==
    IF trim(line) = <<>> \/ csv_app(line) = None THEN list
    ELSE LET app == csv_app(line)[1]
             i == find_pid(list, app.pid)
         IN  IF i # 0
             THEN [list EXCEPT
                      ![i].memory_mb = raised_memory(@, app.memory_mb)]
             ELSE Append(list, app)

RECURSIVE graphics_lines(_, _)
graphics_lines(list, ls) ==
    IF ls = <<>> THEN list
    ELSE graphics_lines(graphics_line(list, Head(ls)), Tail(ls))

\* ui.rs:972-995
compute_apps(list, cmd) ==
    IF stdout_of(cmd) = None THEN list
    ELSE compute_lines(list, lines(stdout_of(cmd)[1]))

\* a mutant of pmon_apps: a failed monitor discards what was collected
pmon_apps_or_nothing(list, cmd) ==
    IF stdout_of(cmd) = None THEN <<>>
    ELSE pmon_lines(list, lines(stdout_of(cmd)[1]))

\* ui.rs:1002-1048
pmon_apps(list, cmd) ==
    IF stdout_of(cmd) = None THEN list
    ELSE pmon_lines(list, lines(stdout_of(cmd)[1]))

\* ui.rs:1058-1091
graphics_apps(list, cmd) ==
    IF stdout_of(cmd) = None THEN list
    ELSE graphics_lines(list, lines(stdout_of(cmd)[1]))

\* b.memory_mb.cmp(&a.memory_mb) is Less
MoreMemoryMb(a, b) == a.memory_mb > b.memory_mb

\* a mutant of get_gpu_processes: sorted before the graphics query is merged
get_gpu_processes_sorted_early(compute, pmon, graphics) ==
    graphics_apps(SortSeq(pmon_apps(compute_apps(<<>>, compute), pmon),
                          MoreMemoryMb),
                  graphics)

\* ui.rs:959-1096
get_gpu_processes(compute, pmon, graphics) ==
    SortSeq(graphics_apps(pmon_apps(compute_apps(<<>>, compute), pmon),
                          graphics),
            MoreMemoryMb)

\* the outputs of the three queries
AppQueries(compute, pmon, graphics) ==
    [compute |-> compute, pmon |-> pmon, graphics |-> graphics]

\* ui::draw_gpu_processes (ui.rs:882-884) on a host whose three nvidia-smi
\* queries print nvidia_smi_apps
draw_gpu_processes ==
    /\ gpu_processes' =
           get_gpu_processes(nvidia_smi_apps.compute, nvidia_smi_apps.pmon,
                             nvidia_smi_apps.graphics)
    /\ UNCHANGED nvidia_smi_apps

\* ------------------------------------------------------------ construction
\* App::new (main.rs:73-79) then SystemMetrics::new (metrics.rs:41-81): sys is
\* the snapshot of system.refresh_all(), nets the interfaces refresh_list()
\* found
new(history_size, sys, nets) ==
    /\ max_history = history_size
    /\ cpu_history = <<>>
    /\ memory_history = <<>>
    /\ disk_history = <<>>
    /\ network_rx_history = <<>>
    /\ network_tx_history = <<>>
    /\ networks = nets
    /\ initial_rx_bytes = total_bytes(nets).rx
    /\ initial_tx_bytes = total_bytes(nets).tx
    /\ prev_rx_bytes = total_bytes(nets).rx
    /\ prev_tx_bytes = total_bytes(nets).tx
    /\ per_core_usage = <<>>
    /\ per_core_temperatures = <<>>
    /\ gpu_usage = None
    /\ gpu_temperature = None
    /\ gpu_fan_speed = None
    /\ gpu_power_draw = None
    /\ gpu_memory_used = None
    /\ gpu_memory_total = None
    /\ gpu_name = None
    /\ gpu_usage_history = <<>>
    /\ gpu_memory_percent_history = <<>>
    /\ system = sys
    /\ hwmon = <<>>
    /\ thermal = <<>>
    /\ disks = <<>>
    /\ time_diff = 0
    /\ nvidia_smi = [full |-> NotRun, basic |-> NotRun]
    /\ cpu_samples = <<>>

\* nothing is drawn yet, on a host whose three process queries print apps
ui_new(apps) ==
    /\ gpu_processes = <<>>
    /\ nvidia_smi_apps = apps

\* the remaining fields of App::new (main.rs:73-95): interval is the --interval
\* argument, procs the process map system.refresh_all() built
app_new(interval, procs) ==
    /\ should_quit = FALSE
    /\ update_interval = interval
    /\ last_update = 0
    /\ current_tab = 0
    /\ journal_logs = <<>>
    /\ journal_scroll = 0
    /\ processes = <<>>
    /\ process_scroll = 0
    /\ last_process_refresh = 0
    /\ last_journal_refresh = 0
    /\ process_sort_mode = "Cpu"
    /\ system_processes = procs
    /\ kill_result = "none"
    /\ journal_fetch = NotRun

\* -------------------------------------------------------------------- tick
\* App::update's metrics branch (main.rs:98-105): the snapshot is refreshed to
\* sys, then SystemMetrics::update (metrics.rs:83-131) runs to its end. dsk is
\* the disk list it enumerates, nets the interfaces after networks.refresh(),
\* elapsed the time since the previous network sample, full the output of the
\* comprehensive nvidia-smi query and basic that of the reduced query
\* (NotRun when the comprehensive line is taken), entries the directories of
\* /sys/class/hwmon and zones those of /sys/class/thermal at this call.
store(sys, entries, zones, dsk, nets, elapsed, full, basic, total, gpu, temps) ==
    /\ Len(cpu_samples) < MaxTicks
    /\ system' = sys
    /\ cpu_samples' = Append(cpu_samples, sys.global_cpu_usage)
    /\ cpu_history' = Push(cpu_history, sys.global_cpu_usage)
    /\ per_core_usage' = sys.cpus
    \* update_per_core_temperatures (metrics.rs:388-444)
    /\ hwmon' = entries
    /\ thermal' = zones
    /\ per_core_temperatures' = temps
    /\ memory_history' = Push(memory_history, memory_usage_of(sys))
    /\ disks' = dsk
    /\ disk_history' = Push(disk_history, root_disk_usage(dsk))
    \* update_network_stats (metrics.rs:231-282)
    /\ networks' = nets
    /\ time_diff' = elapsed
    /\ network_rx_history' =
           Push(network_rx_history,
                NetRate(total.rx, prev_rx_bytes, F32(elapsed)))
    /\ network_tx_history' =
           Push(network_tx_history,
                NetRate(total.tx, prev_tx_bytes, F32(elapsed)))
    /\ prev_rx_bytes' = total.rx
    /\ prev_tx_bytes' = total.tx
    \* update_gpu_stats (metrics.rs:542-641)
    /\ nvidia_smi' = [full |-> full, basic |-> basic]
    /\ gpu_name' = gpu.name
    /\ gpu_usage' = gpu.usage
    /\ gpu_temperature' = gpu.temperature
    /\ gpu_fan_speed' = gpu.fan_speed
    /\ gpu_power_draw' = gpu.power_draw
    /\ gpu_memory_used' = gpu.memory_used
    /\ gpu_memory_total' = gpu.memory_total
    \* update_gpu_history (metrics.rs:643-657)
    /\ gpu_usage_history' = history_sample(gpu_usage_history, gpu.usage)
    /\ gpu_memory_percent_history' =
           history_sample(gpu_memory_percent_history,
                          memory_usage_percent_of(gpu.memory_used,
                                                  gpu.memory_total))
    /\ UNCHANGED <<max_history, initial_rx_bytes, initial_tx_bytes>>

\* SystemMetrics::update (metrics.rs:83-131) as App::update calls it
update(sys, entries, zones, dsk, nets, elapsed, full, basic) ==
    \E total \in {total_bytes(nets)}, gpu \in {update_gpu_stats(full, basic)},
       temps \in {update_per_core_temperatures(Len(sys.cpus), entries,
                                               zones)} :
        store(sys, entries, zones, dsk, nets, elapsed, full, basic, total, gpu,
              temps)

\* SystemMetrics::update of a SystemMetrics driven on its own: nothing is
\* drawn and the application around it stands still
update_alone(sys, entries, zones, dsk, nets, elapsed, full, basic) ==
    \E total \in {total_bytes(nets)}, gpu \in {update_gpu_stats(full, basic)},
       temps \in {update_per_core_temperatures(Len(sys.cpus), entries,
                                               zones)} :
        /\ store(sys, entries, zones, dsk, nets, elapsed, full, basic, total,
                 gpu, temps)
        /\ UNCHANGED <<ui_vars, app_vars>>

\* ---------------------------------------------------------- process table
\* Duration::from_secs(2) and Duration::from_secs(5) of App::new
process_refresh_interval == 2
journal_refresh_interval == 5

Min(a, b) == IF a < b THEN a ELSE b

\* a process of sysinfo as refresh_processes_cached reads it: name(), pid(),
\* cpu_usage(), memory() and user_id(), the uid kept as its decimal text
SysProcess(name, pid, cpu, memory, user_id) ==
    [name |-> name, pid |-> pid, cpu |-> cpu, memory |-> memory,
     user_id |-> user_id]

\* struct ProcessInfo (main.rs:64-70)
ProcessInfo(name, pid, cpu_usage_, memory_usage_, user) ==
    [name |-> name, pid |-> pid, cpu_usage |-> cpu_usage_,
     memory_usage |-> memory_usage_, user |-> user]

\* a mutant of qualifies: the memory test admits 1024 bytes
qualifies_from_1024(process) ==
    process.name # "" /\ process.memory >= 1024

\* main.rs:263
qualifies(process) == process.name # "" /\ process.memory > 1024

\* main.rs:265-271
process_info(process) ==
    ProcessInfo(process.name, process.pid, process.cpu, process.memory,
                unwrap_or(process.user_id, "unknown"))

\* main.rs:277-281: Less of the Cpu comparator
CpuBefore(a, b) ==
    \/ FGt(a.cpu_usage, b.cpu_usage)
    \/ a.cpu_usage = b.cpu_usage /\ a.memory_usage > b.memory_usage

\* main.rs:284-288: Less of the Memory comparator
MemoryBefore(a, b) ==
    \/ a.memory_usage > b.memory_usage
    \/ a.memory_usage = b.memory_usage /\ FGt(a.cpu_usage, b.cpu_usage)

\* a mutant of sorted_by_mode: always the Cpu order
sorted_by_cpu(table, mode) == SortSeq(table, CpuBefore)

\* main.rs:275-290; SortSeq is a stable sort, as slice::sort_by is
sorted_by_mode(table, mode) ==
    IF mode = "Cpu" THEN SortSeq(table, CpuBefore)
    ELSE SortSeq(table, MemoryBefore)

\* Vec::truncate
truncate(table, len) == SubSeq(table, 1, Min(len, Len(table)))

\* main.rs:259-272: the qualifying processes, in the order of the map
collected(procs) ==
    LET kept == SelectSeq(procs, qualifies)
    IN  IF kept = <<>> THEN <<>>
        ELSE [i \in 1..Len(kept) |-> process_info(kept[i])]

\* a mutant of process_table: truncated before it is sorted
process_table_cut_first(procs, mode) ==
    sorted_by_mode(truncate(collected(procs), 500), mode)

\* main.rs:259-293: the table of a process map under a sort mode
process_table(procs, mode) ==
    truncate(sorted_by_mode(collected(procs), mode), 500)

\* a mutant of clamped_scroll: the cursor is kept
unclamped_scroll(scroll, len) == scroll

\* main.rs:299-301
clamped_scroll(scroll, len) ==
    IF scroll >= len THEN saturating_sub(len, 1) ELSE scroll

\* App::refresh_processes_cached (main.rs:255-302) under the sort mode the
\* caller leaves in process_sort_mode'; procs is the process map after
\* system.refresh_processes
refresh_processes_cached(procs) ==
    \E table \in {process_table(procs, process_sort_mode')} :
        /\ system_processes' = procs
        /\ processes' = table
        /\ last_process_refresh' = 0
        /\ process_scroll' = clamped_scroll(process_scroll, Len(table))

\* a mutant of refresh_journal_logs_cached: new entries are put before the
\* old ones
refresh_journal_logs_merged(fetch) ==
    /\ journal_logs' =
           IF stdout_of(fetch) # None /\ lines(stdout_of(fetch)[1]) # <<>>
           THEN lines(stdout_of(fetch)[1]) \o journal_logs
           ELSE journal_logs
    /\ journal_scroll' = journal_scroll
    /\ last_journal_refresh' = 0

\* App::refresh_journal_logs_cached (main.rs:226-253): fetch is the outcome
\* of `timeout 1s journalctl -n 100 --no-pager -o short -r`
refresh_journal_logs_cached(fetch) ==
    /\ journal_logs' =
           IF stdout_of(fetch) # None /\ lines(stdout_of(fetch)[1]) # <<>>
           THEN lines(stdout_of(fetch)[1])
           ELSE journal_logs
    /\ journal_scroll' = journal_scroll
    /\ last_journal_refresh' = 0

\* main.rs:311-325: the outcomes of the kill command after which the table is
\* refreshed
kill_refreshes(outcome) == outcome \in {"success", "spawn_error"}

\* App::kill_process (main.rs:304-326)
kill_process(pid, outcome, procs) ==
    IF kill_refreshes(outcome)
    THEN UNCHANGED process_sort_mode /\ refresh_processes_cached(procs)
    ELSE UNCHANGED process_vars

\* ---------------------------------------------------------- application loop
\* a mutant of app_update: the refreshes of the tab shown run inside the
\* metrics tick
app_update_nested(sys, entries, zones, dsk, nets, elapsed, full, basic, procs, fetch) ==
    /\ ~should_quit
    /\ IF last_update >= update_interval
       THEN /\ update(sys, entries, zones, dsk, nets, elapsed, full, basic)
            /\ last_update' = 0
       ELSE UNCHANGED <<metrics_vars, last_update>>
    /\ IF last_update >= update_interval /\ current_tab = 1
          /\ last_process_refresh >= process_refresh_interval
       THEN UNCHANGED process_sort_mode /\ refresh_processes_cached(procs)
       ELSE UNCHANGED process_vars
    /\ IF last_update >= update_interval /\ current_tab = 2
          /\ last_journal_refresh >= journal_refresh_interval
       THEN refresh_journal_logs_cached(fetch)
       ELSE UNCHANGED journal_vars
    /\ kill_result' = "none"
    /\ journal_fetch' =
           IF last_update >= update_interval /\ current_tab = 2
              /\ last_journal_refresh >= journal_refresh_interval
           THEN fetch
           ELSE NotRun
    /\ UNCHANGED <<should_quit, current_tab, update_interval, ui_vars>>

\* App::update (main.rs:97-116): the metrics tick with the inputs of update,
\* then the refreshes of the tab shown
app_update(sys, entries, zones, dsk, nets, elapsed, full, basic, procs, fetch) ==
    /\ ~should_quit
    /\ IF last_update >= update_interval
       THEN /\ update(sys, entries, zones, dsk, nets, elapsed, full, basic)
            /\ last_update' = 0
       ELSE UNCHANGED <<metrics_vars, last_update>>
    /\ IF current_tab = 1 /\ last_process_refresh >= process_refresh_interval
       THEN UNCHANGED process_sort_mode /\ refresh_processes_cached(procs)
       ELSE UNCHANGED process_vars
    /\ IF current_tab = 2 /\ last_journal_refresh >= journal_refresh_interval
       THEN refresh_journal_logs_cached(fetch)
       ELSE UNCHANGED journal_vars
    /\ kill_result' = "none"
    /\ journal_fetch' =
           IF current_tab = 2 /\ last_journal_refresh >= journal_refresh_interval
           THEN fetch
           ELSE NotRun
    /\ UNCHANGED <<should_quit, current_tab, update_interval, ui_vars>>

\* the keys handle_input tells apart
Keys ==
    {"q", "Esc", "Ctrl+c", "Tab", "Up", "Down", "PageUp", "PageDown", "c",
     "m", "k", "x"}

\* App::handle_input (main.rs:118-224) when poll reports the key; procs, fetch
\* and outcome are what a refresh or a kill it starts observes
handle_input(key, procs, fetch, outcome) ==
    /\ ~should_quit
    /\ UNCHANGED <<metrics_vars, ui_vars, update_interval, last_update>>
    /\ kill_result' =
           IF key = "k" /\ current_tab = 1 /\ processes # <<>>
           THEN outcome
           ELSE "none"
    /\ journal_fetch' =
           IF key = "Tab" /\ current_tab = 1
              /\ (journal_logs = <<>>
                  \/ last_journal_refresh >= journal_refresh_interval)
           THEN fetch
           ELSE NotRun
    /\ CASE key \in {"q", "Esc", "Ctrl+c"} ->
              /\ should_quit' = TRUE
              /\ UNCHANGED <<current_tab, process_vars, journal_vars>>
         [] key = "Tab" ->
              /\ current_tab' = (current_tab + 1) % 3
              /\ IF current_tab' = 1
                    /\ (processes = <<>>
                        \/ last_process_refresh >= process_refresh_interval)
                 THEN /\ UNCHANGED process_sort_mode
                      /\ refresh_processes_cached(procs)
                 ELSE UNCHANGED process_vars
              /\ IF current_tab' = 2
                    /\ (journal_logs = <<>>
                        \/ last_journal_refresh >= journal_refresh_interval)
                 THEN refresh_journal_logs_cached(fetch)
                 ELSE UNCHANGED journal_vars
              /\ UNCHANGED should_quit
         [] key = "Up" ->
              /\ process_scroll' =
                     IF current_tab = 1 /\ processes # <<>>
                        /\ process_scroll > 0
                     THEN process_scroll - 1
                     ELSE process_scroll
              /\ journal_scroll' =
                     IF current_tab = 2 /\ journal_logs # <<>>
                        /\ journal_scroll > 0
                     THEN journal_scroll - 1
                     ELSE journal_scroll
              /\ UNCHANGED <<should_quit, current_tab, processes,
                             process_sort_mode, last_process_refresh,
                             system_processes, journal_logs,
                             last_journal_refresh>>
         [] key = "Down" ->
              /\ process_scroll' =
                     IF current_tab = 1 /\ processes # <<>>
                        /\ process_scroll < saturating_sub(Len(processes), 1)
                     THEN process_scroll + 1
                     ELSE process_scroll
              /\ journal_scroll' =
                     IF current_tab = 2 /\ journal_logs # <<>>
                        /\ journal_scroll < saturating_sub(Len(journal_logs), 1)
                     THEN journal_scroll + 1
                     ELSE journal_scroll
              /\ UNCHANGED <<should_quit, current_tab, processes,
                             process_sort_mode, last_process_refresh,
                             system_processes, journal_logs,
                             last_journal_refresh>>
         [] key = "PageUp" ->
              /\ process_scroll' =
                     IF current_tab = 1 /\ processes # <<>>
                     THEN saturating_sub(process_scroll, 10)
                     ELSE process_scroll
              /\ journal_scroll' =
                     IF current_tab = 2 /\ journal_logs # <<>>
                     THEN saturating_sub(journal_scroll, 10)
                     ELSE journal_scroll
              /\ UNCHANGED <<should_quit, current_tab, processes,
                             process_sort_mode, last_process_refresh,
                             system_processes, journal_logs,
                             last_journal_refresh>>
         [] key = "PageDown" ->
              /\ process_scroll' =
                     IF current_tab = 1 /\ processes # <<>>
                     THEN Min(process_scroll + 10,
                              saturating_sub(Len(processes), 1))
                     ELSE process_scroll
              /\ journal_scroll' =
                     IF current_tab = 2 /\ journal_logs # <<>>
                     THEN Min(journal_scroll + 10,
                              saturating_sub(Len(journal_logs), 1))
                     ELSE journal_scroll
              /\ UNCHANGED <<should_quit, current_tab, processes,
                             process_sort_mode, last_process_refresh,
                             system_processes, journal_logs,
                             last_journal_refresh>>
         [] key \in {"c", "m"} ->
              /\ IF current_tab = 1
                 THEN /\ process_sort_mode' =
                             IF key = "c" THEN "Cpu" ELSE "Memory"
                      /\ refresh_processes_cached(procs)
                 ELSE UNCHANGED process_vars
              /\ UNCHANGED <<should_quit, current_tab, journal_vars>>
         [] key = "k" ->
              /\ IF current_tab = 1 /\ processes # <<>>
                 THEN kill_process(processes[process_scroll + 1].pid, outcome,
                                   procs)
                 ELSE UNCHANGED process_vars
              /\ UNCHANGED <<should_quit, current_tab, journal_vars>>
         [] OTHER ->
              UNCHANGED <<should_quit, current_tab, process_vars,
                          journal_vars>>

\* time passes by one second between two steps of the loop (the wait of
\* event::poll, thread::sleep, main.rs:119 and 341)
time_passes ==
    /\ ~should_quit
    /\ last_update' = Min(last_update + 1, update_interval)
    /\ last_process_refresh' =
           Min(last_process_refresh + 1, process_refresh_interval)
    /\ last_journal_refresh' =
           Min(last_journal_refresh + 1, journal_refresh_interval)
    /\ kill_result' = "none"
    /\ journal_fetch' = NotRun
    /\ UNCHANGED <<metrics_vars, ui_vars, should_quit, current_tab,
                   update_interval, processes, process_scroll,
                   process_sort_mode, system_processes, journal_logs,
                   journal_scroll>>

\* ---------------------------------------------------------- the host: inputs
\* a snapshot of two logical CPUs
HostSnapshot(cpu, used, total) ==
    [used_memory |-> used,
     total_memory |-> total,
     global_cpu_usage |-> F32(cpu),
     cpus |-> <<F32(cpu - 5), F32(cpu + 5)>>]

QuietHost == HostSnapshot(10, 1, 2)
BusyHost == HostSnapshot(20, 3, 4)

\* the text of a sysfs file: its content and the line feed the kernel appends
File(s) == Some(s \o <<"\n">>)

\* a machine without hwmon directory whose only thermal zone is the package
\* sensor, at 45 degrees
NoHwmon == <<>>
PackageZone ==
    <<ThermalZone(File(<<"4", "5", "0", "0", "0">>),
                  File(<<"x", "8", "6", "_", "p", "k", "g", "_",
                         "t", "e", "m", "p">>))>>

\* a machine with an NVMe sensor and one physical core, at 50 degrees, under
\* a package at 60 degrees
CoretempTree ==
    <<HwmonNode(File(<<"n", "v", "m", "e">>),
                <<SensorFiles(File(<<"3", "5", "0", "0", "0">>),
                              File(<<"C", "o", "m", "p", "o", "s", "i", "t",
                                     "e">>))>>),
      HwmonNode(File(<<"c", "o", "r", "e", "t", "e", "m", "p">>),
                <<SensorFiles(File(<<"6", "0", "0", "0", "0">>),
                              File(<<"P", "a", "c", "k", "a", "g", "e", " ",
                                     "i", "d", " ", "0">>)),
                  SensorFiles(File(<<"5", "0", "0", "0", "0">>),
                              File(<<"C", "o", "r", "e", " ", "0">>))>>)>>
NoZones == <<>>

\* a snapshot of n logical CPUs
CoreSnapshot(n) ==
    [used_memory |-> 1,
     total_memory |-> 2,
     global_cpu_usage |-> F32(10),
     cpus |-> [i \in 1..n |-> F32(10)]]

\* the sensors of a coretemp directory: cores 0, 4 and 12 at 41, 63 and
\* 10.001 degrees, two cores whose files hold the bounds of the accepted
\* range, the package at 70 degrees, a sensor without label file at 80
\* degrees, and an index without files
Core0 == SensorFiles(File(<<"4", "1", "0", "0", "0">>), File(<<"C", "o", "r", "e", " ", "0">>))
Core4 == SensorFiles(File(<<"6", "3", "0", "0", "0">>), File(<<"C", "o", "r", "e", " ", "4">>))
Core12 == SensorFiles(File(<<"1", "0", "0", "0", "1">>), File(<<"C", "o", "r", "e", " ", "1", "2">>))
CoreHot == SensorFiles(File(<<"1", "5", "0", "0", "0", "0">>), File(<<"C", "o", "r", "e", " ", "2">>))
CoreCold == SensorFiles(File(<<"1", "0", "0", "0", "0">>), File(<<"C", "o", "r", "e", " ", "3">>))
Package == SensorFiles(File(<<"7", "0", "0", "0", "0">>), File(<<"P", "a", "c", "k", "a", "g", "e", " ", "i", "d", " ", "0">>))
Bare == SensorFiles(File(<<"8", "0", "0", "0", "0">>), None)
Absent == SensorFiles(None, None)

\* the orders in which the files of a directory can stand at its indices
Perms(s) ==
    {[i \in 1..Len(s) |-> s[p[i]]] : p \in Permutations(1..Len(s))}

\* directories of three, two, one and no accepted core reading, the core
\* numbers of one directory being distinct as the coretemp driver labels them
SensorLayouts ==
    Perms(<<Package, Core0, Core4, Core12>>)
    \cup Perms(<<Absent, Core4, CoreHot, Core0>>)
    \cup Perms(<<CoreCold, Core12, Absent, Bare>>)
    \cup Perms(<<CoreCold, CoreHot, Package, Bare>>)

\* an NVMe drive, which is no CPU sensor
NvmeNode ==
    HwmonNode(File(<<"n", "v", "m", "e">>),
              <<SensorFiles(File(<<"9", "5", "0", "0", "0">>), File(<<"C", "o", "m", "p", "o", "s", "i", "t", "e">>))>>)

\* the second socket of a board, its package at 75 degrees
SecondSocket ==
    HwmonNode(File(<<"c", "o", "r", "e", "t", "e", "m", "p">>),
              <<SensorFiles(File(<<"7", "5", "0", "0", "0">>), File(<<"P", "a", "c", "k", "a", "g", "e", " ", "i", "d", " ", "1">>)),
                SensorFiles(File(<<"4", "4", "0", "0", "0">>), File(<<"C", "o", "r", "e", " ", "0">>))>>)

\* /sys/class/hwmon of a machine whose first socket has the sensors layout
HwmonTrees(layout) ==
    {<<HwmonNode(File(StrCoretemp), layout)>>,
     <<NvmeNode, HwmonNode(File(StrCoretemp), layout)>>,
     <<HwmonNode(File(StrCoretemp), layout), SecondSocket>>}

\* thermal zones: zone 0 reads the upper bound of the range, zone 1 has no
\* type file and reads 55 degrees, zone 2 is the ACPI zone at 30 degrees, zone
\* 3 the package at 48 degrees
MixedZones ==
    <<ThermalZone(File(<<"1", "5", "0", "0", "0", "0">>), File(StrCpu)),
      ThermalZone(File(<<"5", "5", "0", "0", "0">>), None),
      ThermalZone(File(<<"3", "0", "0", "0", "0">>), File(<<"a", "c", "p", "i", "t", "z">>)),
      ThermalZone(File(<<"4", "8", "0", "0", "0">>), File(StrX86PkgTemp))>>

ZoneLists == {NoZones, PackageZone, MixedZones}

\* what update() finds on the host: the snapshot and the sensor files
Host(sys, entries, zones) ==
    [system |-> sys, hwmon |-> entries, thermal |-> zones]

Hosts ==
    {Host(QuietHost, NoHwmon, PackageZone),
     Host(BusyHost, CoretempTree, NoZones)}

NoRootDisk ==
    <<[mount_point |-> "/home", total_space |-> 8, available_space |-> 4]>>
RootDisk ==
    <<[mount_point |-> "/home", total_space |-> 8, available_space |-> 4],
      [mount_point |-> "/", total_space |-> 4, available_space |-> 1]>>
DiskLists == {<<>>, NoRootDisk, RootDisk}

\* the interfaces of the host: eth0 carries the counters given, the loopback
\* and the virtual interfaces carry traffic of their own
Interfaces(rx, tx) ==
    <<[name |-> <<"l", "o">>, rx |-> 7, tx |-> 7],
      [name |-> <<"e", "t", "h", "0">>, rx |-> rx, tx |-> tx],
      [name |-> <<"v", "e", "t", "h", "1">>, rx |-> 5, tx |-> 5],
      [name |-> <<"d", "o", "c", "k", "e", "r", "0">>, rx |-> 3, tx |-> 3],
      [name |-> <<"v", "i", "r", "b", "r", "0">>, rx |-> 2, tx |-> 2]>>

\* nvidia-smi's csv: the fields joined by ", ", the line ended by a line feed
RECURSIVE Csv(_)
Csv(toks) ==
    IF Len(toks) = 1 THEN toks[1]
    ELSE toks[1] \o <<",", " ">> \o Csv(Tail(toks))

Line(toks) == Csv(toks) \o <<"\n">>

TokGpu == <<"G", "P", "U">>
Tok40 == <<"4", "0">>
Tok60 == <<"6", "0">>
Tok30 == <<"3", "0">>
Tok35p5 == <<"3", "5", ".", "5">>
Tok1 == <<"1">>
Tok4 == <<"4">>
Tok0 == <<"0">>
TokNA == <<"N", "/", "A">>

\* a healthy GPU: every field supported
HealthyLine == Line(<<TokGpu, Tok40, Tok60, Tok30, Tok35p5, Tok1, Tok4>>)

\* every mix of supported and unsupported fields
MixedLines ==
    {Line(<<n, u, t, f, p, mu, mt>>) :
        n \in {TokGpu, <<>>}, u \in {Tok40, TokNA}, t \in {Tok60, NotSupported},
        f \in {Tok30, NotSupported}, p \in {Tok35p5, NotSupported},
        mu \in {Tok1, NotSupported}, mt \in {Tok4, NotSupported}}

\* seven fields, with the name not supported, with no VRAM, for two GPUs
OtherSevenFieldLines ==
    {Line(<<NotSupported, Tok40, Tok60, Tok30, Tok35p5, Tok1, Tok4>>),
     Line(<<TokGpu, Tok40, Tok60, Tok30, Tok35p5, Tok0, Tok0>>),
     HealthyLine \o Line(<<TokGpu, Tok0, Tok30, Tok30, Tok35p5, Tok1, Tok4>>)}

\* eight fields: a GPU name that holds a comma ("GPU, 4")
EightFieldLine ==
    Line(<<TokGpu, Tok4, Tok40, Tok60, Tok30, Tok35p5, Tok1, Tok4>>)

\* six fields, no field, no line
ShortOutputs ==
    {Line(<<TokGpu, Tok40, Tok60, Tok30, Tok35p5, Tok1>>), <<"\n">>, <<>>}

FailedCommands ==
    {CmdOut("spawn_error", <<>>), CmdOut("exit_failure", <<>>),
     CmdOut("invalid_utf8", <<>>)}

FullOutputs ==
    {CmdOut("ok", s) :
        s \in MixedLines \cup OtherSevenFieldLines \cup {EightFieldLine}
              \cup ShortOutputs}
    \cup FailedCommands

BasicOutputs ==
    {CmdOut("ok", s) :
        s \in {Line(<<Tok30, Tok60>>), Line(<<NotSupported, Tok60>>),
               Line(<<Tok30>>), <<>>}}
    \cup {CmdOut("spawn_error", <<>>), CmdOut("exit_failure", <<>>)}

\* what one call of update_gpu_stats can observe: the reduced query runs only
\* when the comprehensive line is not taken
GpuRuns(fulls, basics) ==
    {<<f, NotRun>> : f \in {x \in fulls : full_accepted(x)}}
    \cup ({x \in fulls : ~full_accepted(x)} \X basics)

AllGpuRuns == GpuRuns(FullOutputs, BasicOutputs)
NoGpu == <<CmdOut("spawn_error", <<>>), CmdOut("spawn_error", <<>>)>>
CoarseGpuRuns == {NoGpu, <<CmdOut("ok", HealthyLine), NotRun>>}

\* ---------------------------------------------- GPU process queries: inputs
Tok100 == <<"1", "0", "0">>
Tok200 == <<"2", "0", "0">>
Tok300 == <<"3", "0", "0">>
Tok500 == <<"5", "0", "0">>
Tok600 == <<"6", "0", "0">>
Tok800 == <<"8", "0", "0">>
Tok10 == <<"1", "0">>
Tok50 == <<"5", "0">>
TokDash == <<"-">>
TokC == <<"C">>
TokAppA == <<"a", "p", "p", "A">>
TokAppC == <<"a", "p", "p", "C">>
TokXorg == <<"X", "o", "r", "g">>

\* the lines t, each ended by a line feed
RECURSIVE Text(_)
Text(t) == IF t = <<>> THEN <<>> ELSE Head(t) \o <<"\n">> \o Text(Tail(t))

\* every text of at most n lines drawn from rows
Texts(rows, n) == {Text(t) : t \in UNION {[1..k -> rows] : k \in 0..n}}

\* a row of the monitor: right-aligned columns
RECURSIVE Columns(_)
Columns(toks) ==
    IF toks = <<>> THEN <<>>
    ELSE <<" ", " ", " ">> \o Head(toks) \o Columns(Tail(toks))

\* appA, once per GPU it runs on, and appC
ComputeRows ==
    {Csv(<<Tok100, TokAppA, Tok500>>), Csv(<<Tok200, TokAppC, Tok600>>)}

\* the two header lines of `nvidia-smi pmon`
PmonHeader ==
    Text(<<<<"#", " ", "g", "p", "u", " ", " ", " ", "p", "i", "d", " ", " ",
             "t", "y", "p", "e", " ", " ", "s", "m", " ", " ", "m", "e", "m",
             " ", " ", "e", "n", "c", " ", " ", "d", "e", "c", " ", " ",
             "c", "o", "m", "m", "a", "n", "d">>,
           <<"#", " ", "I", "d", "x", " ", " ", " ", " ", " ", "#", " ", " ",
             "C", "/", "G", " ", " ", " ", "%", " ", " ", " ", " ", "%",
             " ", " ", " ", " ", "%", " ", " ", " ", " ", "%", " ", " ",
             "n", "a", "m", "e">>>>)

\* appA busy on GPU 0 and idle on GPU 1
PmonRows ==
    {Columns(<<Tok0, Tok100, TokC, Tok40, Tok10, TokDash, TokDash, TokAppA>>),
     Columns(<<Tok1, Tok100, TokC, TokDash, TokDash, TokDash, TokDash,
               TokAppA>>)}

\* appA under a higher and a lower memory reading, the display server
GraphicsRows ==
    {Csv(<<Tok100, TokAppA, Tok800>>), Csv(<<Tok100, TokAppA, Tok300>>),
     Csv(<<Tok300, TokXorg, Tok50>>)}

ComputeOutputs ==
    {CmdOut("ok", t) : t \in Texts(ComputeRows, MaxAppLines)}
    \cup FailedCommands

PmonOutputs ==
    {CmdOut("ok", PmonHeader \o t) : t \in Texts(PmonRows, MaxAppLines)}
    \cup FailedCommands

GraphicsOutputs ==
    {CmdOut("ok", t) : t \in Texts(GraphicsRows, MaxAppLines)}
    \cup FailedCommands

\* a host without nvidia-smi
NoGpuApps ==
    AppQueries(CmdOut("spawn_error", <<>>), CmdOut("spawn_error", <<>>),
               CmdOut("spawn_error", <<>>))

\* ------------------------------------------------------ processes: inputs
Shell == SysProcess("bash", 2, F32(5), 2048, Some("1000"))
Hog == SysProcess("hog", 3, F32(5), 8192, None)
Compiler == SysProcess("cc", 4, F32(90), 2048, Some("1000"))
\* a process of exactly 1024 bytes, a process without name
Tiny == SysProcess("tiny", 5, F32(1), 1024, Some("0"))
Nameless == SysProcess("", 6, F32(1), 4096, Some("0"))

\* n processes, the busier and larger first
Workers(n) ==
    [i \in 1..n |->
        SysProcess("worker", 100 + i, F32(n - i), 2048 + n - i, Some("1000"))]

\* n qualifying processes: workers, two processes that do not qualify among
\* them, and last in the map the busiest and largest process
Crowd(n) ==
    <<Tiny>> \o Workers(n - 1) \o <<Nameless>>
    \o <<SysProcess("top", 99, F32(n), 2048 + n, Some("0"))>>

\* a map in which nothing qualifies, a few processes, a few pages of them
SmallHosts ==
    {<<Tiny, Nameless>>, <<Shell, Tiny, Hog, Nameless, Compiler>>,
     Workers(MaxWorkers)}

\* maps of 500 and of more than 500 qualifying processes
CrowdedHosts ==
    {Crowd(MaxProcesses - 1), Crowd(MaxProcesses), Crowd(MaxProcesses + 1)}

\* how the kill command can end (main.rs:306-311): exit status zero, another
\* exit status, or no kill command to start
KillOutcomes == {"success", "failure", "spawn_error"}

\* a host without journalctl
NoJournal == CmdOut("spawn_error", <<>>)

\* --------------------------------------------------------- journal: inputs
TokBoot == <<"b", "o", "o", "t">>
TokSshd == <<"s", "s", "h", "d">>

\* what `timeout 1s journalctl -n 100 --no-pager -o short -r` can end with:
\* a journal of up to MaxLogLines entries, none included, or a failure
JournalOutputs ==
    {CmdOut("ok", t) : t \in Texts({TokBoot, TokSshd}, MaxLogLines)}
    \cup FailedCommands

\* ------------------------------------------------------ the specifications
\* The engine under a varying host: CPU, memory, root filesystem, traffic and
\* GPU presence change from tick to tick.
Init ==
    /\ \E h \in 0..MaxHistory : new(h, QuietHost, Interfaces(1, 1))
    /\ ui_new(NoGpuApps)
    /\ app_new(1, <<Shell>>)

Tick ==
    \E host \in Hosts, dsk \in {NoRootDisk, RootDisk}, rx \in {1, 2},
          run \in CoarseGpuRuns :
           update_alone(host.system, host.hwmon, host.thermal, dsk,
                  Interfaces(rx, 1), 1, run[1], run[2])

Next == Tick

Spec == Init /\ [][Next]_vars

\* The network rate calculator: the counters of eth0 move freely (up, down,
\* to zero) and the time between two samples may be zero.
InitNet ==
    /\ \E rx \in 0..MaxBytes, tx \in {0, 1} :
           new(1, QuietHost, Interfaces(rx, tx))
    /\ ui_new(NoGpuApps)
    /\ app_new(1, <<Shell>>)

TickNet ==
    \E rx \in 0..MaxBytes, tx \in {0, 1, MaxBytes},
          elapsed \in 0..MaxElapsed :
           update_alone(QuietHost, NoHwmon, PackageZone, NoRootDisk,
                  Interfaces(rx, tx), elapsed, NoGpu[1], NoGpu[2])

NextNet == TickNet

SpecNet == InitNet /\ [][NextNet]_vars

\* The GPU telemetry adapter: every output of the two nvidia-smi queries.
InitGpu ==
    /\ new(2, QuietHost, Interfaces(1, 1))
    /\ ui_new(NoGpuApps)
    /\ app_new(1, <<Shell>>)

TickGpu ==
    \E run \in AllGpuRuns :
           update_alone(QuietHost, NoHwmon, PackageZone, NoRootDisk,
                  Interfaces(1, 1), 1, run[1], run[2])

NextGpu == TickGpu

SpecGpu == InitGpu /\ [][NextGpu]_vars

\* The GPU process list: every combination of outputs of the three process
\* queries, drawn once.
InitGpuProc ==
    /\ new(1, QuietHost, Interfaces(1, 1))
    /\ \E compute \in ComputeOutputs, pmon \in PmonOutputs,
          graphics \in GraphicsOutputs :
           ui_new(AppQueries(compute, pmon, graphics))
    /\ app_new(1, <<Shell>>)

DrawGpuProc ==
    /\ draw_gpu_processes
    /\ UNCHANGED <<metrics_vars, app_vars>>

NextGpuProc == DrawGpuProc

SpecGpuProc == InitGpuProc /\ [][NextGpuProc]_vars

\* The quiet metrics tick of the application loop
QuietTick(procs, fetch) ==
    app_update(QuietHost, NoHwmon, PackageZone, NoRootDisk, Interfaces(1, 1), 1,
               NoGpu[1], NoGpu[2], procs, fetch)

\* The application on a host of few processes and without journal: time
\* passes, the loop updates, the user presses any key.
InitApp ==
    /\ new(1, QuietHost, Interfaces(1, 1))
    /\ ui_new(NoGpuApps)
    /\ \E procs \in SmallHosts : app_new(1, procs)

SleepApp == time_passes

UpdateApp == \E procs \in SmallHosts : QuietTick(procs, NoJournal)

\* a key other than the kill key: no kill command runs
KeyApp ==
    \E key \in Keys \ {"k"}, procs \in SmallHosts :
        handle_input(key, procs, NoJournal, "none")

KillApp ==
    \E procs \in SmallHosts, outcome \in KillOutcomes :
        handle_input("k", procs, NoJournal, outcome)

NextApp == SleepApp \/ UpdateApp \/ KeyApp \/ KillApp

SpecApp == InitApp /\ [][NextApp]_vars

\* The application on a crowded host: the user switches tabs and sort modes
\* and kills.
InitCrowd ==
    /\ new(1, QuietHost, Interfaces(1, 1))
    /\ ui_new(NoGpuApps)
    /\ \E procs \in CrowdedHosts : app_new(1, procs)

SleepCrowd == time_passes

UpdateCrowd == \E procs \in CrowdedHosts : QuietTick(procs, NoJournal)

KeyCrowd ==
    \E key \in {"Tab", "c", "m"}, procs \in CrowdedHosts :
        handle_input(key, procs, NoJournal, "none")

KillCrowd ==
    \E procs \in CrowdedHosts, outcome \in KillOutcomes :
        handle_input("k", procs, NoJournal, outcome)

NextCrowd == SleepCrowd \/ UpdateCrowd \/ KeyCrowd \/ KillCrowd

SpecCrowd == InitCrowd /\ [][NextCrowd]_vars

\* The loop and its three timers: time passes, the loop updates, the user
\* switches tabs and kills; --interval is 1 or 3 seconds.
InitTimers ==
    /\ new(1, QuietHost, Interfaces(1, 1))
    /\ ui_new(NoGpuApps)
    /\ \E interval \in {1, 3} : app_new(interval, <<Shell>>)

\* a wait that moves a timer: once all three have elapsed, more waiting
\* changes nothing the loop can observe
SleepTimers ==
    /\ \/ last_update < update_interval
       \/ last_process_refresh < process_refresh_interval
       \/ last_journal_refresh < journal_refresh_interval
    /\ time_passes

\* journalctl is missing or prints one line
FewJournals == {NoJournal, CmdOut("ok", Text(<<TokBoot>>))}

UpdateTimers == \E fetch \in FewJournals : QuietTick(<<Shell>>, fetch)

TabTimers ==
    \E fetch \in FewJournals : handle_input("Tab", <<Shell>>, fetch, "none")

\* the user presses k while the process tab shows a process
KillTimers ==
    /\ current_tab = 1
    /\ processes # <<>>
    /\ \E outcome \in KillOutcomes :
           handle_input("k", <<Shell>>, NoJournal, outcome)

NextTimers == SleepTimers \/ UpdateTimers \/ TabTimers \/ KillTimers

SpecTimers == InitTimers /\ [][NextTimers]_vars

\* The temperature sensors: the first tick finds the machine (its logical
\* cores, its hwmon directories, its thermal zones), later ticks read the
\* same files again.
InitTemp ==
    /\ new(1, CoreSnapshot(1), Interfaces(1, 1))
    /\ ui_new(NoGpuApps)
    /\ app_new(1, <<Shell>>)

FirstTickTemp ==
    /\ cpu_samples = <<>>
    /\ \E n \in 1..MaxCores, layout \in SensorLayouts, zones \in ZoneLists :
           \E entries \in HwmonTrees(layout) :
               update_alone(CoreSnapshot(n), entries, zones, NoRootDisk,
                            Interfaces(1, 1), 1, NoGpu[1], NoGpu[2])

LaterTickTemp ==
    /\ cpu_samples # <<>>
    /\ update_alone(system, hwmon, thermal, NoRootDisk, Interfaces(1, 1), 1,
                    NoGpu[1], NoGpu[2])

NextTemp == FirstTickTemp \/ LaterTickTemp

SpecTemp == InitTemp /\ [][NextTemp]_vars

\* The log tab: time passes, the loop updates, the user switches tabs and
\* scrolls, and every journalctl run may print another journal or fail.
InitLog ==
    /\ new(1, QuietHost, Interfaces(1, 1))
    /\ ui_new(NoGpuApps)
    /\ app_new(1, <<Shell>>)

SleepLog == time_passes

UpdateLog == \E fetch \in JournalOutputs : QuietTick(<<Shell>>, fetch)

TabLog ==
    \E fetch \in JournalOutputs : handle_input("Tab", <<Shell>>, fetch, "none")

\* the scroll keys run no command
ScrollLog ==
    \E key \in {"Up", "Down", "PageUp", "PageDown"} :
        handle_input(key, <<Shell>>, NoJournal, "none")

NextLog == SleepLog \/ UpdateLog \/ TabLog \/ ScrollLog

SpecLog == InitLog /\ [][NextLog]_vars

\* ------------------------------------------------------------------ claims
Ticks == Len(cpu_samples)
Ticked == Len(cpu_samples') = Len(cpu_samples) + 1

Series ==
    <<cpu_history, memory_history, disk_history, network_rx_history,
      network_tx_history, gpu_usage_history, gpu_memory_percent_history>>

LastN(s, n) == [i \in 1..n |-> s[Len(s) - n + i]]
Newest(h) == h[Len(h)]
HasRoot(dsk) == \E i \in 1..Len(dsk) : dsk[i].mount_point = "/"
FirstRoot(dsk) ==
    dsk[CHOOSE i \in 1..Len(dsk) :
            dsk[i].mount_point = "/"
            /\ \A j \in 1..(i - 1) : dsk[j].mount_point # "/"]

\* the rate r is d bytes in e time units, in Kbps: r = d / e * 8 / 1000
IsRateOf(r, d, e) == r[1] * e * 1000 = r[2] * d * 8

\* C1: FIFO eviction law. With max_history >= 1, once more than max_history
\* ticks of update() have run, every history series has exactly max_history
\* entries and cpu_history holds the last max_history samples pushed, in push
\* order.
C1_FifoEviction ==
    (max_history >= 1 /\ Ticks > max_history) =>
        /\ \A i \in 1..7 : Len(Series[i]) = max_history
        /\ cpu_history = LastN(cpu_samples, max_history)

\* three pushes into a series of two: the first sample is gone
C1_Witness ==
    /\ max_history = 2
    /\ cpu_samples = <<F32(20), F32(10), F32(20)>>
    /\ cpu_history = <<F32(10), F32(20)>>

C2_LengthBounded == \A i \in 1..7 : Len(Series[i]) <= max_history
C2_CapacityFixed == max_history' = max_history

\* C2: in every reachable state, for every max_history accepted by new(),
\* 0 included, each of the seven series has at most max_history entries, and
\* max_history never changes after construction.
C2_BoundedHistory == []C2_LengthBounded /\ [][C2_CapacityFixed]_vars

C3_LatestState ==
    IF Ticks = 0
    THEN /\ cpu_usage = FZero
         /\ memory_usage = FZero
         /\ disk_usage = FZero
         /\ network_download_rate = FZero
         /\ network_upload_rate = FZero
    ELSE /\ cpu_usage = system.global_cpu_usage
         /\ cpu_usage = Newest(cpu_samples)
         /\ memory_usage[1] * system.total_memory
                = memory_usage[2] * system.used_memory * 100
         /\ IF HasRoot(disks)
            THEN disk_usage[1] * FirstRoot(disks).total_space
                    = disk_usage[2] * 100
                        * (FirstRoot(disks).total_space
                            - FirstRoot(disks).available_space)
            ELSE disk_usage = FZero
         /\ network_download_rate = Newest(network_rx_history)
         /\ network_upload_rate = Newest(network_tx_history)

C3_LatestStep ==
    Ticked =>
        /\ network_download_rate'
              = NetRate(total_bytes(networks').rx, prev_rx_bytes, F32(time_diff'))
        /\ network_upload_rate'
              = NetRate(total_bytes(networks').tx, prev_tx_bytes, F32(time_diff'))

\* C3: the latest-value accessors return 0.0 before the first tick and after
\* any tick the sample that tick pushed: the CPU usage of the snapshot, its
\* used/total memory in percent, the usage of the root filesystem (0 without
\* one) and the network rates computed in that tick.
C3_LatestAccessors == []C3_LatestState /\ [][C3_LatestStep]_vars

\* the second tick saw other values than the first, and the accessors follow
C3_Witness ==
    /\ Ticks = 2
    /\ max_history = 2
    /\ cpu_history = <<F32(10), F32(20)>>
    /\ cpu_usage = F32(20)
    /\ memory_usage = F32(75)
    /\ disk_usage = F32(75)
    /\ disk_history[1] = FZero
    /\ network_download_rate # FZero

C7_SameLength ==
    /\ \A i \in 1..7 : Len(Series[i]) = Len(cpu_history)
    /\ Ticks > 0 =>
        /\ Len(cpu_history) > 0
        /\ gpu_usage = None => Newest(gpu_usage_history) = FZero
        /\ gpu_memory_usage_percent = None
              => Newest(gpu_memory_percent_history) = FZero
        /\ ~HasRoot(disks) => Newest(disk_history) = FZero

C7_OneSampleEach ==
    Ticked =>
        \A i \in 1..7 :
            /\ Len(Series[i]') >= 1
            /\ SubSeq(Series[i]', 1, Len(Series[i]') - 1)
                  \in {Series[i], pop_front(Series[i])}

\* C7: every call of update() appends exactly one sample to each of the
\* seven series whatever source fails: the series always have the same
\* length, a tick without GPU pushes 0.0 to both GPU series and a tick
\* without root filesystem pushes 0.0 to the disk series.
C7_NoGap == []C7_SameLength /\ [][C7_OneSampleEach]_vars

\* a tick with GPU and root filesystem, then a tick without either
C7_Witness ==
    /\ Ticks = 2
    /\ max_history = 2
    /\ gpu_usage = None
    /\ ~HasRoot(disks)
    /\ gpu_usage_history = <<F32(40), FZero>>
    /\ gpu_memory_percent_history = <<F32(25), FZero>>
    /\ disk_history = <<F32(75), FZero>>
    /\ Len(cpu_history) = 2

\* ---- network rate calculator (SpecNet)
Max0(x) == IF x > 0 THEN x ELSE 0

\* the rate pushed for one direction in the step: r' after a previous total
\* prev, a current total cur and e time units. Forced to 0 when e <= 0 or
\* when `first` holds, else the saturating difference over the time.
RateLaw(r, prev, cur, e, first) ==
    IF e <= 0 \/ first THEN r = FZero ELSE IsRateOf(r, Max0(cur - prev), e)

C4_AmendedStep ==
    Ticked =>
        /\ RateLaw(Newest(network_rx_history'), prev_rx_bytes,
                   total_bytes(networks').rx, time_diff', prev_rx_bytes = 0)
        /\ RateLaw(Newest(network_tx_history'), prev_tx_bytes,
                   total_bytes(networks').tx, time_diff', prev_tx_bytes = 0)

C4_OriginalStep ==
    Ticked =>
        /\ RateLaw(Newest(network_rx_history'), prev_rx_bytes,
                   total_bytes(networks').rx, time_diff', Ticks = 0)
        /\ RateLaw(Newest(network_tx_history'), prev_tx_bytes,
                   total_bytes(networks').tx, time_diff', Ticks = 0)

\* C4 (as amended): the rx and tx rates pushed by update_network_stats are 0
\* on any tick with elapsed time <= 0 and on any tick whose previous total is
\* 0; on every other tick, the first tick after construction included, the
\* rate is saturating_sub(current_total, previous_total)/elapsed*8/1000.
C4_RateForcedToZeroOnZeroPrev == [][C4_AmendedStep]_vars

\* C4 (as claimed): the rates are 0 on the first tick after construction and
\* on any tick with elapsed time <= 0, and on every other tick the rate is
\* saturating_sub(current_total, previous_total)/elapsed*8/1000.
C4_RateForcedToZeroOnFirstTick == [][C4_OriginalStep]_vars

\* the first tick after construction pushes a rate that is not 0
C4_Witness ==
    /\ Ticks = 1
    /\ initial_rx_bytes > 0
    /\ prev_rx_bytes > initial_rx_bytes
    /\ time_diff > 0
    /\ network_download_rate # FZero

C5_NoNegativeSample ==
    /\ \A i \in 1..Len(network_rx_history) : FGe(network_rx_history[i], FZero)
    /\ \A i \in 1..Len(network_tx_history) : FGe(network_tx_history[i], FZero)

C5_DecreaseGivesZero ==
    Ticked =>
        /\ total_bytes(networks').rx < prev_rx_bytes
              => Newest(network_rx_history') = FZero
        /\ total_bytes(networks').tx < prev_tx_bytes
              => Newest(network_tx_history') = FZero

\* C5: for any sequence of counter totals, decreasing ones included, every
\* rate sample pushed into the network histories is >= 0, and a total that
\* decreased between two ticks gives the rate 0.
C5_RatesNeverNegative == []C5_NoNegativeSample /\ [][C5_DecreaseGivesZero]_vars

\* the counter fell below the total read at construction: the rate is 0
C5_Witness ==
    /\ Ticks = 1
    /\ prev_rx_bytes < initial_rx_bytes
    /\ time_diff > 0
    /\ network_rx_history = <<FZero>>

C6_SessionTotals ==
    /\ total_network_bytes[1]
          = Max0(total_bytes(networks).rx - initial_rx_bytes)
    /\ total_network_bytes[2]
          = Max0(total_bytes(networks).tx - initial_tx_bytes)
    /\ Ticks = 0 =>
          /\ total_network_bytes = <<0, 0>>
          /\ initial_rx_bytes = total_bytes(networks).rx
          /\ initial_tx_bytes = total_bytes(networks).tx

C6_BaselineKept ==
    /\ initial_rx_bytes' = initial_rx_bytes
    /\ initial_tx_bytes' = initial_tx_bytes

\* C6: session totals law. After any number of ticks total_network_bytes()
\* is the saturating difference of the latest totals and the totals captured
\* in new(), which no tick modifies; before any tick it is (0, 0).
C6_SessionTotalsLaw == []C6_SessionTotals /\ [][C6_BaselineKept]_vars

\* two ticks on: rx grew by 2 over its baseline, tx fell below its baseline
C6_Witness ==
    /\ Ticks = 2
    /\ initial_rx_bytes = 1
    /\ initial_tx_bytes = 1
    /\ prev_tx_bytes = 0
    /\ total_network_bytes = <<2, 0>>

\* ---- GPU telemetry adapter (SpecGpu)
GpuFields ==
    <<gpu_name, gpu_usage, gpu_temperature, gpu_fan_speed, gpu_power_draw,
      gpu_memory_used, gpu_memory_total>>

CommandFailed(out) ==
    out.status \in {"spawn_error", "exit_failure", "invalid_utf8"}

CountChar(s, c) == Cardinality({i \in 1..Len(s) : s[i] = c})

\* the number of comma-separated fields of the first line of a stdout that
\* has one
FieldCount(stdout) == CountChar(first_line(stdout)[1], ",") + 1

\* the number a token of the inputs denotes, by the table of those that
\* denote one
NumberOf(tok) ==
    CASE tok = Tok0 -> Some(F32(0))
      [] tok = Tok1 -> Some(F32(1))
      [] tok = Tok4 -> Some(F32(4))
      [] tok = Tok30 -> Some(F32(30))
      [] tok = Tok40 -> Some(F32(40))
      [] tok = Tok60 -> Some(F32(60))
      [] tok = Tok35p5 -> Some(<<71, 2>>)
      [] OTHER -> None

C8_AllAbsent ==
    (Ticks > 0 /\ CommandFailed(nvidia_smi.full)
               /\ CommandFailed(nvidia_smi.basic)) =>
        /\ \A i \in 1..7 : GpuFields[i] = None
        /\ Len(gpu_usage_history) = Len(cpu_history)
        /\ Len(gpu_memory_percent_history) = Len(cpu_history)
        /\ Newest(gpu_usage_history) = FZero
        /\ Newest(gpu_memory_percent_history) = FZero

C8_TickCompletes ==
    (Ticked /\ CommandFailed(nvidia_smi'.full)
            /\ CommandFailed(nvidia_smi'.basic)) =>
        /\ gpu_usage_history'
              \in {Append(gpu_usage_history, FZero),
                   Append(pop_front(gpu_usage_history), FZero)}
        /\ gpu_memory_percent_history'
              \in {Append(gpu_memory_percent_history, FZero),
                   Append(pop_front(gpu_memory_percent_history), FZero)}

\* C8: in a tick where the comprehensive query fails and the reduced query
\* fails too, all seven GPU fields are absent after the tick whatever they
\* held before, and the tick completes: both GPU series get their 0.0.
C8_BothQueriesFail == []C8_AllAbsent /\ [][C8_TickCompletes]_vars

\* a healthy GPU in the first tick, no nvidia-smi in the second
C8_Witness ==
    /\ Ticks = 2
    /\ CommandFailed(nvidia_smi.full)
    /\ CommandFailed(nvidia_smi.basic)
    /\ \A i \in 1..7 : GpuFields[i] = None
    /\ gpu_usage_history = <<F32(40), FZero>>
    /\ gpu_memory_percent_history = <<F32(25), FZero>>

\* C9: when the comprehensive query succeeds but its first line does not
\* split on commas into exactly 7 fields (fewer or more), update_gpu_stats
\* takes no value from that line and runs the reduced query.
C9_MismatchRetries ==
    (Ticks > 0 /\ nvidia_smi.full.status = "ok"
               /\ first_line(nvidia_smi.full.stdout) # None
               /\ FieldCount(nvidia_smi.full.stdout) # 7) =>
        /\ nvidia_smi.basic # NotRun
        /\ gpu_name = None
        /\ gpu_fan_speed = None
        /\ gpu_power_draw = None
        /\ gpu_memory_used = None
        /\ gpu_memory_total = None

\* C10: in a tick where the comprehensive line is taken, each of the seven
\* fields is present exactly when its own token is valid, with the value of
\* that token: the name unless empty or the sentinel, a number field when
\* its token denotes a number.
C10_FieldByField ==
    (Ticks > 0 /\ nvidia_smi.full.status = "ok"
               /\ nvidia_smi.basic = NotRun) =>
        LET tok == query_parts(nvidia_smi.full)[1]
        IN  /\ gpu_name = IF tok[1] \in {<<>>, NotSupported}
                          THEN None ELSE Some(tok[1])
            /\ \A i \in 2..7 : GpuFields[i] = NumberOf(tok[i])

\* the fan is not supported, the six other fields are present
C10_Witness ==
    /\ Ticks > 0
    /\ nvidia_smi.full.status = "ok"
    /\ nvidia_smi.basic = NotRun
    /\ FieldCount(nvidia_smi.full.stdout) = 7
    /\ gpu_fan_speed = None
    /\ gpu_name = Some(TokGpu)
    /\ gpu_usage = Some(F32(40))
    /\ gpu_temperature = Some(F32(60))
    /\ gpu_power_draw = Some(<<71, 2>>)
    /\ gpu_memory_used = Some(F32(1))
    /\ gpu_memory_total = Some(F32(4))

\* the last tick was degraded: the reduced query ran and its first line has
\* two fields or more
Degraded ==
    /\ Ticks > 0
    /\ nvidia_smi.basic.status = "ok"
    /\ first_line(nvidia_smi.basic.stdout) # None
    /\ FieldCount(nvidia_smi.basic.stdout) >= 2

\* C28: after a tick whose comprehensive query is rejected and whose reduced
\* query succeeds, usage and temperature hold the reduced query's values,
\* fan speed, power draw, memory used, memory total and name are absent
\* whatever they held before, and the VRAM-percent sample of the tick is 0.0.
C28_DegradedTick ==
    Degraded =>
        \A tok \in {query_parts(nvidia_smi.basic)[1]} :
            /\ gpu_usage = NumberOf(tok[1])
            /\ gpu_temperature = NumberOf(tok[2])
            /\ gpu_name = None
            /\ gpu_fan_speed = None
            /\ gpu_power_draw = None
            /\ gpu_memory_used = None
            /\ gpu_memory_total = None
            /\ Newest(gpu_memory_percent_history) = FZero

\* a healthy GPU with a quarter of its VRAM in use in the first tick, a
\* degraded second tick at 30 percent and 60 degrees
C28_Witness ==
    /\ Degraded
    /\ gpu_usage_history = <<F32(40), F32(30)>>
    /\ gpu_memory_percent_history = <<F32(25), FZero>>
    /\ gpu_temperature = Some(F32(60))
    /\ gpu_memory_used = None

\* ---- GPU process merge (SpecGpuProc)
\* the three sources as get_gpu_processes reads them, each taken alone: the
\* compute list (a), the monitor snapshot (b) and the graphics list (c)
ListA == compute_apps(<<>>, nvidia_smi_apps.compute)
ListB == pmon_apps(<<>>, nvidia_smi_apps.pmon)
ListC == compute_apps(<<>>, nvidia_smi_apps.graphics)

Pids(list) == {list[i].pid : i \in 1..Len(list)}
At(list, pid) == {i \in 1..Len(list) : list[i].pid = pid}
Largest(S) == CHOOSE x \in S : \A y \in S : y <= x

\* the step draws the GPU process tab
Drawn == gpu_processes' # gpu_processes

C11_Merged ==
    \A p \in Pids(ListA) \cap Pids(ListB) \cap Pids(ListC) :
        Cardinality(At(ListA, p)) = 1 =>
            \E a \in At(ListA, p), b \in At(ListB, p) :
                /\ Cardinality(At(gpu_processes', p)) = 1
                /\ \A i \in At(gpu_processes', p) :
                       /\ gpu_processes'[i].name = ListA[a].name
                       /\ gpu_processes'[i].memory_mb =
                              Largest({ListA[a].memory_mb}
                                      \cup {ListC[c].memory_mb :
                                                c \in At(ListC, p)})
                       /\ gpu_processes'[i].gpu_util = ListB[b].gpu_util
                       /\ gpu_processes'[i].mem_util = ListB[b].mem_util

C12_OneRecordPerPid ==
    \A i, j \in 1..Len(gpu_processes) :
        gpu_processes[i].pid = gpu_processes[j].pid => i = j

\* the lines of the monitor output, none when the command failed
MonitorRows ==
    IF stdout_of(nvidia_smi_apps.pmon) = None THEN <<>>
    ELSE lines(stdout_of(nvidia_smi_apps.pmon)[1])

\* the record a monitor line makes on its own: <<>> for a header, a blank or
\* a short line
RowRecord(line) == pmon_line(<<>>, line)

C13_ValueKept ==
    Drawn =>
        \A k \in 1..Len(MonitorRows) :
            \A row \in {RowRecord(MonitorRows[k])} :
                row # <<>> =>
                    \E i \in At(gpu_processes', row[1].pid) :
                        /\ row[1].gpu_util # None
                              => gpu_processes'[i].gpu_util # None
                        /\ row[1].mem_util # None
                              => gpu_processes'[i].mem_util # None

\* C13: during the merge a gpu_util or mem_util that holds a value for a pid
\* is never replaced by absent: when some monitor line of a pid carries a
\* value, the record returned for the pid carries one, whatever lines of the
\* same pid carrying "-" follow.
C13_NeverAbsentOverPresent == [][C13_ValueKept]_vars

\* a failed source read as a source that printed nothing
Silent(cmd) == IF cmd.status = "ok" THEN cmd ELSE CmdOut("ok", <<>>)

Failed(cmd) == cmd.status # "ok"

MergeOfSucceeded ==
    get_gpu_processes(Silent(nvidia_smi_apps.compute),
                      Silent(nvidia_smi_apps.pmon),
                      Silent(nvidia_smi_apps.graphics))

C14_State ==
    /\ gpu_processes \in {<<>>, MergeOfSucceeded}
    /\ (Failed(nvidia_smi_apps.compute) /\ Failed(nvidia_smi_apps.pmon)
        /\ Failed(nvidia_smi_apps.graphics)) => gpu_processes = <<>>

C14_Step == gpu_processes' = MergeOfSucceeded

\* C14: each of the three sources may fail on its own (no command, non-zero
\* exit, undecodable output): what get_gpu_processes returns is the merge of
\* the sources that succeeded, the records of earlier sources kept and later
\* sources still merged; when all three fail it returns the empty list.
C14_IndependentFailure == []C14_State /\ [][C14_Step]_vars

\* the monitor fails between a compute list and a graphics list that succeed
C14_Witness ==
    /\ nvidia_smi_apps.compute
          = CmdOut("ok", Text(<<Csv(<<Tok100, TokAppA, Tok500>>)>>))
    /\ Failed(nvidia_smi_apps.pmon)
    /\ nvidia_smi_apps.graphics
          = CmdOut("ok", Text(<<Csv(<<Tok300, TokXorg, Tok50>>)>>))
    /\ gpu_processes = <<GpuProcess(TokAppA, 100, 500, None, None),
                         GpuProcess(TokXorg, 300, 50, None, None)>>

\* C15: the list get_gpu_processes returned is ordered by memory_mb, largest
\* first, the memory the graphics source raised taken into account.
C15_SortedByMemory ==
    \A i, j \in 1..Len(gpu_processes) :
        i < j => gpu_processes[i].memory_mb >= gpu_processes[j].memory_mb

\* appA enters with 500 behind appC with 600; the graphics list raises it to
\* 800 and it is returned first
C15_Witness ==
    /\ nvidia_smi_apps.compute
          = CmdOut("ok", Text(<<Csv(<<Tok200, TokAppC, Tok600>>),
                                Csv(<<Tok100, TokAppA, Tok500>>)>>))
    /\ nvidia_smi_apps.graphics
          = CmdOut("ok", Text(<<Csv(<<Tok100, TokAppA, Tok800>>)>>))
    /\ Len(gpu_processes) = 2
    /\ gpu_processes[1].pid = 100
    /\ gpu_processes[1].memory_mb = 800
    /\ gpu_processes[2].pid = 200

\* the command column of the monitor rows of pid p: the last column of a row
MonitorCommand(p) ==
    LET k == CHOOSE k \in 1..Len(MonitorRows) :
                 /\ RowRecord(MonitorRows[k]) # <<>>
                 /\ RowRecord(MonitorRows[k])[1].pid = p
        parts == split_whitespace(MonitorRows[k])
    IN  parts[Len(parts)]

C29_Inserted ==
    Drawn =>
        /\ \A p \in Pids(ListB) \ Pids(ListA) :
               \E i \in At(gpu_processes', p), b \in At(ListB, p) :
                   /\ gpu_processes'[i].name = MonitorCommand(p)
                   /\ gpu_processes'[i].memory_mb
                          = Largest({0} \cup {ListC[c].memory_mb :
                                                 c \in At(ListC, p)})
                   /\ gpu_processes'[i].gpu_util = ListB[b].gpu_util
                   /\ gpu_processes'[i].mem_util = ListB[b].mem_util
        /\ \A p \in Pids(ListC) \ (Pids(ListA) \cup Pids(ListB)) :
               \E i \in At(gpu_processes', p), c \in At(ListC, p) :
                   /\ gpu_processes'[i].name = ListC[c].name
                   /\ gpu_processes'[i].memory_mb
                          = Largest({ListC[x].memory_mb : x \in At(ListC, p)})
                   /\ gpu_processes'[i].gpu_util = None
                   /\ gpu_processes'[i].mem_util = None

\* C29: a pid the monitor lists and the compute query does not is inserted
\* with the name of the monitor's command column and memory 0; a graphics
\* line of the pid with memory m > 0 raises the memory to m and leaves name
\* and utilization as the monitor gave them; a pid of the graphics list alone
\* gets that list's name and memory and no utilization.
C29_SourceOrder == [][C29_Inserted]_vars

\* ---- process table (SpecApp, SpecCrowd)
TablePids == {processes[i].pid : i \in 1..Len(processes)}

\* a precedes b in the order of the active sort mode
Precedes(a, b) ==
    IF process_sort_mode = "Cpu" THEN CpuBefore(a, b) ELSE MemoryBefore(a, b)

\* C16: in every reachable state, after any refreshes, sort-mode switches,
\* tab switches and kills, no entry of the process table has an empty name
\* and none has memory <= 1024 bytes.
C16_NoNoise ==
    \A i \in 1..Len(processes) :
        processes[i].name # "" /\ processes[i].memory_usage > 1024

\* the map holds a process of exactly 1024 bytes and one without name; the
\* table shows the other three
C16_Witness ==
    /\ system_processes = <<Shell, Tiny, Hog, Nameless, Compiler>>
    /\ TablePids = {Shell.pid, Hog.pid, Compiler.pid}
    /\ Len(processes) = 3

C17_FirstInOrder ==
    \A all \in {collected(system_processes)}, shown \in {TablePids} :
        \A i \in 1..Len(all) :
            all[i].pid \notin shown =>
                \A k \in 1..Len(processes) : ~Precedes(all[i], processes[k])

\* C17: in every reachable state the process table has at most 500 entries,
\* and after a refresh over more than 500 qualifying processes the entries
\* kept are the first 500 in the active sort order: no process left out
\* precedes an entry kept.
C17_Top500 ==
    /\ Len(processes) <= 500
    /\ processes # <<>> => C17_FirstInOrder

\* 502 processes qualify; the busiest, last in the map, heads the 500 kept
C17_Witness ==
    /\ Len(collected(system_processes)) = MaxProcesses + 1
    /\ Len(processes) = 500
    /\ processes[1].name = "top"
    /\ process_sort_mode = "Memory"

\* C18: in every reachable state the process table is ordered by the active
\* sort mode, CPU descending then memory descending, or memory descending
\* then CPU descending: after a switch of the mode no entry stands behind an
\* entry it precedes in the new mode.
C18_OrderedByMode ==
    \A i, j \in 1..Len(processes) :
        i < j => ~Precedes(processes[j], processes[i])

\* after 'm': hog (8192 bytes), then cc before bash (2048 bytes each, 90 %
\* against 5 %); under Cpu cc stood first
C18_Witness ==
    /\ process_sort_mode = "Memory"
    /\ Len(processes) = 3
    /\ processes[1].pid = Hog.pid
    /\ processes[2].pid = Compiler.pid
    /\ processes[3].pid = Shell.pid

\* C19: in every reachable state, after any interleaving of refreshes, Up,
\* Down, PageUp, PageDown, sort switches and kills, process_scroll is below
\* processes.len() when the table is not empty and 0 when it is empty, so
\* processes[process_scroll] of the kill key is in bounds.
C19_ScrollInBounds ==
    IF processes = <<>> THEN process_scroll = 0
    ELSE process_scroll < Len(processes)

\* a kill refreshed the table to three entries and the cursor stands on the
\* last of them
C19_Witness ==
    /\ kill_result = "success"
    /\ Len(processes) = 3
    /\ process_scroll = 2
    /\ current_tab = 1

C20_Refreshed ==
    kill_result' # "none" =>
        /\ last_process_refresh' = 0
        /\ processes' = process_table(system_processes', process_sort_mode')

\* C20: kill_process re-runs the refresh of the process table afterwards in
\* all three outcomes of the kill command: it exited with success, it exited
\* with failure, it could not be spawned.
C20_KillAlwaysRefreshes == [][C20_Refreshed]_vars

\* ---- temperature sensors (SpecTemp)
\* a tick has read the sensors
Read == cpu_samples # <<>>

\* the physical core readings the hwmon tree yields
Physical == read_hwmon_core_temperatures(hwmon)

\* C23: when the hwmon tree yields P > 0 physical core readings and the
\* logical core count L exceeds P, per_core_temperatures has L entries and
\* entry i is physical reading i mod P.
C23_ModuloMapping ==
    Read =>
        \A phys \in {Physical}, L \in {Len(per_core_usage)} :
            (phys # None /\ L > Len(phys[1])) =>
                /\ Len(per_core_temperatures) = L
                /\ \A i \in 0..(L - 1) :
                       per_core_temperatures[i + 1]
                           = phys[1][(i % Len(phys[1])) + 1]

\* four logical cores over the three physical readings 41, 63 and 10.001:
\* logical core 3 reads physical core 0
C23_Witness ==
    /\ Physical = Some(<<F32(41), F32(63), Rat(10001, 1000)>>)
    /\ per_core_temperatures
           = <<F32(41), F32(63), Rat(10001, 1000), F32(41)>>

\* the (core number, temperature) pairs of the sensors of a directory that
\* read_hwmon_core_temperatures accepts, whatever their indices
AcceptedPairs(node) ==
    {<<core_num_of(node.sensors[i].label)[1],
       celsius_of(node.sensors[i].input)[1]>> :
        i \in {j \in 1..Len(node.sensors) :
                  /\ celsius_of(node.sensors[j].input) # None
                  /\ plausible(celsius_of(node.sensors[j].input)[1])
                  /\ core_num_of(node.sensors[j].label) # None}}

\* seq lists the temperatures of pairs by ascending core number, one entry
\* per pair
AscendingDense(seq, pairs) ==
    /\ Len(seq) = Cardinality(pairs)
    /\ \A pair \in pairs :
           seq[Cardinality({q \in pairs : q[1] < pair[1]}) + 1] = pair[2]

\* C24: the readings of the sensors labelled "Core k" of one directory are
\* emitted by ascending core number k, whatever indices the sensors stand at,
\* and densely: as many entries as accepted readings.
C24_AscendingDense ==
    Read =>
        \A j \in 1..Len(hwmon) :
            is_core_sensor_node(hwmon[j]) =>
                \A pairs \in {AcceptedPairs(hwmon[j])},
                   temps \in {read_hwmon_core_temperatures(<<hwmon[j]>>)} :
                    IF pairs = {} THEN temps = None
                    ELSE temps # None /\ AscendingDense(temps[1], pairs)

\* cores 12, 4 and 0 stand at indices 1, 3 and 4: the readings come out as
\* core 0, core 4, core 12
C24_Witness ==
    /\ hwmon = <<HwmonNode(File(StrCoretemp),
                           <<Core12, Package, Core4, Core0>>)>>
    /\ per_core_temperatures = <<F32(41), F32(63), Rat(10001, 1000)>>

\* C27: when the hwmon tree yields P > 0 physical core readings,
\* per_core_temperatures has as many entries as per_core_usage; when L <= P
\* they are the first L physical readings.
C27_OnePerLogicalCore ==
    Read =>
        \A phys \in {Physical}, L \in {Len(per_core_usage)} :
            phys # None =>
                /\ Len(per_core_temperatures) = L
                /\ L <= Len(phys[1]) =>
                       per_core_temperatures = SubSeq(phys[1], 1, L)

\* two logical cores over three physical readings: the third is dropped
C27_Witness ==
    /\ Physical = Some(<<F32(41), F32(63), Rat(10001, 1000)>>)
    /\ Len(per_core_usage) = 2
    /\ per_core_temperatures = <<F32(41), F32(63)>>

\* the in-range reading of sensor i of directory j, none when the directory is
\* no CPU sensor or the file is missing, unparsable or out of range
SensorReading(j, i) ==
    LET t == celsius_of(hwmon[j].sensors[i].input)
    IN  IF is_cpu_sensor_node(hwmon[j]) /\ t # None /\ plausible(t[1])
        THEN t
        ELSE None

\* the sensors (directory, index) of the hwmon tree among the first ten of
\* their directory
Sensors ==
    {<<j, i>> \in (1..Len(hwmon)) \X (1..10) : i <= Len(hwmon[j].sensors)}

PackageReadings ==
    {SensorReading(jx[1], jx[2])[1] :
        jx \in {x \in Sensors :
                   /\ SensorReading(x[1], x[2]) # None
                   /\ package_labelled(hwmon[x[1]].sensors[x[2]].label)}}

FallbackReadings ==
    {SensorReading(jx[1], jx[2])[1] :
        jx \in {x \in Sensors :
                   /\ x[2] = 1
                   /\ SensorReading(x[1], x[2]) # None
                   /\ ~package_labelled(hwmon[x[1]].sensors[x[2]].label)}}

Hottest(S) == CHOOSE x \in S : \A y \in S : FGe(x, y)

\* the in-range reading of thermal zone i
ZoneReading(i) ==
    LET t == IF i < Len(thermal) THEN celsius_of(thermal[i + 1].temp)
             ELSE None
    IN  IF t # None /\ plausible(t[1]) THEN t ELSE None

\* the first in-range reading of thermal_zone0, thermal_zone1, thermal_zone2
FirstZoneReading ==
    IF \A i \in 0..2 : ZoneReading(i) = None THEN None
    ELSE ZoneReading(CHOOSE i \in 0..2 :
                         /\ ZoneReading(i) # None
                         /\ \A h \in 0..(i - 1) : ZoneReading(h) = None)

\* C25: cpu_temperature() is the maximum of the package-labelled in-range
\* readings of the matching directories if there is one, else the maximum of
\* their index-1 fallback readings if there is one, else the first in-range
\* value of the three fixed thermal zones, else none.
C25_PackageFirst ==
    Read =>
        \A packages \in {PackageReadings}, fallbacks \in {FallbackReadings} :
            cpu_temperature
                = IF packages # {} THEN Some(Hottest(packages))
                  ELSE IF fallbacks # {} THEN Some(Hottest(fallbacks))
                  ELSE FirstZoneReading

\* the package reads 70 degrees at index 4 and the unlabelled sensor at index
\* 1 reads 80: the result is 70
C25_Witness ==
    /\ hwmon = <<HwmonNode(File(StrCoretemp),
                           <<Bare, CoreCold, CoreHot, Package>>)>>
    /\ cpu_temperature = Some(F32(70))

\* strictly between 10 and 150 degrees
InRange(t) == t[1] > 10 * t[2] /\ t[1] < 150 * t[2]

\* C26: cpu_temperature() and every entry of per_core_temperatures lie
\* strictly between 10 and 150 degrees: a file holding 10000, 150000 or a
\* value outside is dropped, not clamped.
C26_StrictlyInRange ==
    Read =>
        /\ \A t \in {cpu_temperature} : t # None => InRange(t[1])
        /\ \A i \in 1..Len(per_core_temperatures) :
               InRange(per_core_temperatures[i])

\* no core sensor is in range (two hold the bounds 10000 and 150000), zone 0
\* holds 150000: three logical cores read zones 1 and 3 and their mean
C26_Witness ==
    /\ hwmon = <<HwmonNode(File(StrCoretemp),
                           <<CoreCold, CoreHot, Package, Bare>>)>>
    /\ thermal = MixedZones
    /\ per_core_temperatures = <<F32(55), F32(48), Rat(103, 2)>>
    /\ cpu_temperature = Some(F32(70))

\* ---- timers of the application loop (SpecTimers)
\* the step ran journalctl
Fetched == journal_fetch' # NotRun

\* the step is an iteration's App::update: no key was handled and no time
\* passed
UpdateStep ==
    /\ current_tab' = current_tab
    /\ kill_result' = "none"
    /\ last_update' <= last_update
    /\ last_process_refresh' <= last_process_refresh
    /\ last_journal_refresh' <= last_journal_refresh

\* App::update refreshed the process table in the step
TableRefreshed == last_process_refresh' # last_process_refresh

MetricsDue == last_update >= update_interval
TableDue == last_process_refresh >= process_refresh_interval
JournalDue == last_journal_refresh >= journal_refresh_interval

\* the metrics tick leaves the table, the log cache and their timers alone
\* when their own refresh does not run
TickKeepsCaches ==
    /\ ~TableRefreshed => UNCHANGED process_vars
    /\ ~Fetched => UNCHANGED journal_vars

C22_Step ==
    UpdateStep =>
        /\ Ticked <=> MetricsDue
        /\ TableRefreshed <=> (current_tab = 1 /\ TableDue)
        /\ Fetched <=> (current_tab = 2 /\ JournalDue)
        /\ TickKeepsCaches

\* C22: in App::update the metrics tick runs exactly when update_interval has
\* elapsed since the previous tick; the process table is refreshed exactly
\* when the process tab is shown and 2 s have elapsed since its previous
\* refresh, the log cache exactly when the log tab is shown and 5 s have
\* elapsed since its previous refresh, each whether or not the metrics tick
\* runs in that iteration; a tick changes neither cache nor its timer.
C22_OwnTimerOnShownTab == [][C22_Step]_vars

\* the metrics tick has just run on the overview tab while the process timer
\* has elapsed: the table was not refreshed
C22_Witness ==
    /\ current_tab = 0
    /\ cpu_samples # <<>>
    /\ last_update = 0
    /\ last_process_refresh >= process_refresh_interval
    /\ processes = <<>>

C22_StepAsStated ==
    UpdateStep =>
        /\ Ticked => MetricsDue
        /\ TableDue => TableRefreshed
        /\ JournalDue => Fetched
        /\ TickKeepsCaches

\* C22 as stated: the table and the log cache are refreshed once their own
\* interval has elapsed, whatever tab is shown
C22_OwnTimerAlone == [][C22_StepAsStated]_vars

\* ---- journal cache (SpecLog)
\* the lines a fetch returned, none when it failed
Returned(fetch) ==
    IF fetch.status = "ok" THEN lines(fetch.stdout) ELSE <<>>

C21_Step ==
    Fetched =>
        journal_logs' =
            IF Returned(journal_fetch') = <<>> THEN journal_logs
            ELSE Returned(journal_fetch')

\* C21: a log fetch that fails (no command, non-zero exit or timeout,
\* undecodable output) or returns no line leaves the cached log buffer as it
\* was; a fetch that returns at least one line replaces the whole buffer by
\* the new lines.
C21_WholesaleOrKept == [][C21_Step]_vars

\* journalctl exits with failure over a buffer of two entries, which stay
C21_Witness ==
    /\ journal_fetch = CmdOut("exit_failure", <<>>)
    /\ journal_logs = <<TokBoot, TokSshd>>

====
